---- MODULE Spec2Model ----
(***************************************************************************)
(* Daily schedule generation of baby-checklist: the time utilities, the    *)
(* appointment parser, the slot allocator inside generateChecklist and the *)
(* activity scoring / selection functions of src/lib/activities.ts.        *)
(*                                                                         *)
(* Texts are modelled by their structure: a time text is the format the    *)
(* regular expressions of parseTimeToMinutes recognise together with the   *)
(* digits they capture; a word is a sequence of lower-case fragments plus  *)
(* a flag saying whether it is written in capitals; an appointment text is *)
(* the sequence of segments its delimiters split it into.                  *)
(***************************************************************************)
EXTENDS Integers, Sequences, FiniteSets, TLC

\* ------------------------------------------------------------------ bounds
MaxNaps == 2
MaxCount == 3
\* handler invocations on a shown checklist
MaxMutations == 2

\* ------------------------------------------------------- program constants
\* the boundary set an hour late
END_BY_TIME_HourLate == 1110 + 60

END_BY_TIME == 1110
DayStart == 420
Step == 15
FeedDuration == 30
DefaultNapDuration == 30
CafeCutoff == 900
BaseScore == 50
BonusCount == 3
FallbackSlotTime == 570
DefaultTaskDuration == 20

\* the value of an optional number that is absent (undefined)
Undefined == -1

\* ------------------------------------------------------------ time texts
TT(f, hh, mm, p) == [fmt |-> f, h |-> hh, m |-> mm, pm |-> p]
\* "H:MM AM" / "H:MM PM"
Clock(hh, mm, p) == TT("hmm_ampm", hh, mm, p)
\* an absent (undefined) or empty time string
AbsentTime == TT("absent", 0, 0, FALSE)

To24(hh, p) == IF p /\ hh # 12 THEN hh + 12 ELSE IF ~p /\ hh = 12 THEN 0 ELSE hh

parseTimeToMinutes(t) ==
  CASE t.fmt = "hmm_ampm" -> To24(t.h, t.pm) * 60 + t.m
    [] t.fmt = "h_ampm"   -> To24(t.h, t.pm) * 60
    [] t.fmt = "hhmm"     -> t.h * 60 + t.m
    [] t.fmt = "bare"     -> IF t.h >= 1 /\ t.h <= 6 THEN (t.h + 12) * 60 ELSE t.h * 60
    [] OTHER              -> 0

\* the conversion with noon counted as AM
minutesToTimeStringNoonAM(mins) ==
  LET hours == mins \div 60
      minutes == mins % 60
      isPM == hours > 12
      displayHours == IF hours > 12 THEN hours - 12 ELSE IF hours = 0 THEN 12 ELSE hours
  IN Clock(displayHours, minutes, isPM)

minutesToTimeString(mins) ==
  LET hours == mins \div 60
      minutes == mins % 60
      isPM == hours >= 12
      displayHours == IF hours > 12 THEN hours - 12 ELSE IF hours = 0 THEN 12 ELSE hours
  IN Clock(displayHours, minutes, isPM)

getTimeBlock(mins) ==
  IF mins < 720 THEN "morning"
  ELSE IF mins < 840 THEN "midday"
  ELSE IF mins < 1020 THEN "afternoon"
  ELSE "evening"

\* ------------------------------------------------------ appointment parser
\* A clause of the appointment text: which keyword groups occur in it and
\* the time tokens in it (none, one, or two joined by -/to/until/til).
Clause(d, wk, vs, md, vn, ts) ==
  [desc |-> d, walk |-> wk, visit |-> vs, medical |-> md, venue |-> vn, times |-> ts]
\* a segment between two delimiters holding white space only
Blank == Clause("", FALSE, FALSE, FALSE, FALSE, <<>>)

HasAmPm(t) == t.fmt \in {"hmm_ampm", "h_ampm"}
\* endTimeStr += ' PM'
AppendPM(t) ==
  IF t.fmt = "bare" THEN TT("h_ampm", t.h, 0, TRUE)
  ELSE IF t.fmt = "hhmm" THEN TT("hmm_ampm", t.h, t.m, TRUE)
  ELSE t

RangeEnd(startT, endT) ==
  IF ~HasAmPm(endT) /\ HasAmPm(startT) /\ startT.pm THEN AppendPM(endT)
  ELSE IF ~HasAmPm(endT) /\ endT.h >= 1 /\ endT.h <= 7 THEN AppendPM(endT)
  ELSE endT

\* type detection with the visitor rule tried first
ClauseTypeVisitorFirst(c) ==
  IF c.visit THEN "visitor"
  ELSE IF c.walk THEN "outing"
  ELSE IF c.medical THEN "appointment"
  ELSE IF c.venue THEN "outing"
  ELSE "other"

ClauseType(c) ==
  IF c.walk THEN "outing"
  ELSE IF c.visit THEN "visitor"
  ELSE IF c.medical THEN "appointment"
  ELSE IF c.venue THEN "outing"
  ELSE "other"

\* the loop body with one assumed span of 90 minutes for every type
ParseClauseOneSpan(c) ==
  LET type == ClauseType(c)
      base == [description |-> c.desc, type |-> type,
               fulfillsTask |-> IF c.walk THEN "Going for a walk" ELSE "",
               startMins |-> Undefined, endMins |-> Undefined,
               startTime |-> AbsentTime, endTime |-> AbsentTime]
  IN IF Len(c.times) = 2 THEN
       LET s == parseTimeToMinutes(c.times[1])
           e == parseTimeToMinutes(RangeEnd(c.times[1], c.times[2]))
       IN [base EXCEPT !.startMins = s, !.endMins = e,
                       !.startTime = minutesToTimeString(s),
                       !.endTime = minutesToTimeString(e)]
     ELSE IF Len(c.times) = 1 THEN
       LET s == parseTimeToMinutes(c.times[1])
           e == s + 90
       IN [base EXCEPT !.startMins = s, !.endMins = e,
                       !.startTime = minutesToTimeString(s),
                       !.endTime = minutesToTimeString(e)]
     ELSE base

ParseClause(c) ==
  LET type == ClauseType(c)
      base == [description |-> c.desc, type |-> type,
               fulfillsTask |-> IF c.walk THEN "Going for a walk" ELSE "",
               startMins |-> Undefined, endMins |-> Undefined,
               startTime |-> AbsentTime, endTime |-> AbsentTime]
  IN IF Len(c.times) = 2 THEN
       LET s == parseTimeToMinutes(c.times[1])
           e == parseTimeToMinutes(RangeEnd(c.times[1], c.times[2]))
       IN [base EXCEPT !.startMins = s, !.endMins = e,
                       !.startTime = minutesToTimeString(s),
                       !.endTime = minutesToTimeString(e)]
     ELSE IF Len(c.times) = 1 THEN
       LET s == parseTimeToMinutes(c.times[1])
           e == s + (IF type = "appointment" THEN 60 ELSE 90)
       IN [base EXCEPT !.startMins = s, !.endMins = e,
                       !.startTime = minutesToTimeString(s),
                       !.endTime = minutesToTimeString(e)]
     ELSE base

RECURSIVE DropBlank(_)
DropBlank(text) ==
  IF text = <<>> THEN <<>>
  ELSE IF Head(text) = Blank THEN DropBlank(Tail(text))
  ELSE <<Head(text)>> \o DropBlank(Tail(text))

parseAppointments(text) ==
  LET parts == DropBlank(text)
  IN [i \in 1..Len(parts) |-> ParseClause(parts[i])]


\* ------------------------------------------------------- activity catalog
\* A word: its lower-case fragments, and whether it is written with capitals.
W(ps, up) == [parts |-> ps, upper |-> up]
toLowerCase(w) == [w EXCEPT !.upper = FALSE]
\* String.includes: case-sensitive search of a lower-case keyword
includes(w, kw) == ~w.upper /\ \E i \in 1..Len(w.parts) : w.parts[i] = kw
\* RegExp /kw/i .test: case-insensitive search
testIgnoreCase(w, kw) == \E i \in 1..Len(w.parts) : w.parts[i] = kw

Activity(i, t, tg, d, e, ind, c, lo, hi, wd) ==
  [id |-> i, title |-> t, tags |-> tg, duration |-> d, energyRequired |-> e,
   indoor |-> ind, category |-> c, ageRange |-> [min |-> lo, max |-> hi],
   weatherDependent |-> wd]

\* the activity list loaded from data/activities.json
Catalog ==
  << Activity(W(<<"bubble", "play">>, FALSE),
              {W(<<"bubble">>, TRUE), W(<<"play">>, TRUE)},
              {W(<<"messy">>, FALSE)}, 15, "low", TRUE, "sensory", 0, 24, "any"),
     Activity(W(<<"sand", "play">>, FALSE),
              {W(<<"sand">>, TRUE), W(<<"play">>, TRUE)},
              {W(<<"outdoors">>, FALSE)}, 20, "medium", FALSE, "sensory", 0, 36, "none"),
     Activity(W(<<"lunch", "club">>, FALSE),
              {W(<<"parents">>, TRUE), W(<<"cafe">>, TRUE)},
              {W(<<"coffee">>, TRUE)}, 45, "low", TRUE, "social", 6, 36, "none"),
     Activity(W(<<"nature", "trail">>, FALSE),
              {W(<<"nature">>, TRUE), W(<<"walk">>, TRUE)},
              {W(<<"outdoors">>, FALSE)}, 30, "high", FALSE, "motor", 0, 36, "good"),
     Activity(W(<<"finger", "painting">>, FALSE),
              {W(<<"finger">>, TRUE), W(<<"painting">>, TRUE)},
              {W(<<"messy">>, FALSE), W(<<"art">>, FALSE)}, 30, "high", TRUE, "creative", 0, 36, "none"),
     Activity(W(<<"peekaboo">>, FALSE),
              {W(<<"peekaboo">>, TRUE)},
              {W(<<"quiet">>, FALSE)}, 10, "low", TRUE, "cognitive", 0, 12, "none"),
     Activity(W(<<"garden", "picnic">>, FALSE),
              {W(<<"garden">>, TRUE), W(<<"picnic">>, TRUE)},
              {W(<<"nature">>, FALSE)}, 30, "medium", FALSE, "sensory", 0, 36, "good"),
     Activity(W(<<"splash", "time">>, FALSE),
              {W(<<"splash">>, TRUE), W(<<"time">>, TRUE)},
              {W(<<"bath", "time">>, TRUE)}, 20, "medium", TRUE, "motor", 0, 36, "none"),
     Activity(W(<<"brunch", "date">>, FALSE),
              {W(<<"weekend">>, TRUE), W(<<"outing">>, TRUE)},
              {W(<<"food">>, FALSE)}, 60, "medium", TRUE, "social", 24, 36, "none") >>

ActivityIds == 1..Len(Catalog)

EXCLUDED_BONUS_PATTERNS == {"walk", "stroll", "bath"}
cafeKeywords == {"cafe", "coffee", "brunch", "lunch"}

\* the exclusion test without the i flag of the patterns
overlapsWithRecurringTasksCaseSensitive(a) ==
  \E w \in a.title \cup a.tags : \E p \in EXCLUDED_BONUS_PATTERNS : includes(w, p)

overlapsWithRecurringTasks(a) ==
  \E w \in a.title \cup a.tags : \E p \in EXCLUDED_BONUS_PATTERNS : testIgnoreCase(w, p)

isCafeOrFoodActivity(a) ==
  \/ \E w \in a.title : \E kw \in cafeKeywords : includes(toLowerCase(w), kw)
  \/ \E w \in a.tags : \E kw \in cafeKeywords : includes(toLowerCase(w), kw)
  \/ \E kw \in cafeKeywords : includes(toLowerCase(a.id), kw)

\* ----------------------------------------------------------------- scoring
\* weather = null
NoWeather == [present |-> FALSE, isRainy |-> FALSE, isGoodWeather |-> FALSE]
Weather(rainy, good) == [present |-> TRUE, isRainy |-> rainy, isGoodWeather |-> good]

Max(a, b) == IF a >= b THEN a ELSE b

\* the score of an activity that is not disqualified; r is the value of
\* Math.random() * 20 of this call
AdjustedScore(a, sv, wx, r) ==
  LET w1 == IF wx.present /\ ~a.indoor /\ ~sv.stayingHome /\ wx.isGoodWeather THEN 20 ELSE 0
      w2 == IF wx.present /\ a.weatherDependent = "good" /\ ~wx.isGoodWeather THEN -30 ELSE 0
      o1 == IF ~sv.stayingHome /\ ~a.indoor THEN 15 ELSE 0
      e1 == IF sv.energyLevel = "low"
            THEN (IF a.energyRequired = "high" THEN -40
                  ELSE IF a.energyRequired = "low" THEN 20 ELSE 0)
            ELSE IF sv.energyLevel = "high" /\ a.energyRequired = "high" THEN 15 ELSE 0
      c1 == IF sv.wantsCrafts /\ a.category = "creative" THEN 30 ELSE 0
      c2 == IF sv.wantsCrafts /\ W(<<"messy">>, FALSE) \in a.tags THEN 10 ELSE 0
      d1 == IF Len(sv.appointments) > 0
            THEN (IF a.duration <= 15 THEN 15 ELSE IF a.duration >= 30 THEN -10 ELSE 0)
            ELSE 0
  IN Max(0, BaseScore + w1 + w2 + o1 + e1 + c1 + c2 + d1 + r)

\* the age test written with the upper bound exclusive of nothing: max ignored
scoreActivityNoAgeMax(a, sv, wx, age, r) ==
  IF age < a.ageRange.min THEN 0
  ELSE IF wx.present /\ ~a.indoor /\ wx.isRainy THEN 0
  ELSE IF sv.stayingHome /\ ~a.indoor THEN 0
  ELSE AdjustedScore(a, sv, wx, r)

scoreActivity(a, sv, wx, age, r) ==
  IF age < a.ageRange.min \/ age > a.ageRange.max THEN 0
  ELSE IF wx.present /\ ~a.indoor /\ wx.isRainy THEN 0
  ELSE IF sv.stayingHome /\ ~a.indoor THEN 0
  ELSE AdjustedScore(a, sv, wx, r)

\* Array.prototype.sort with (a, b) => b.score - a.score: stable, descending
RECURSIVE InsertDesc(_, _)
InsertDesc(sorted, x) ==
  IF sorted = <<>> THEN <<x>>
  ELSE IF Head(sorted).score >= x.score THEN <<Head(sorted)>> \o InsertDesc(Tail(sorted), x)
  ELSE <<x>> \o sorted

RECURSIVE SortDesc(_)
SortDesc(s) ==
  IF s = <<>> THEN <<>> ELSE InsertDesc(SortDesc(SubSeq(s, 1, Len(s) - 1)), s[Len(s)])

InSeq(x, s) == \E i \in 1..Len(s) : s[i] = x

\* entries are [activity |-> index in Catalog, score |-> number]
RECURSIVE FilterPositive(_)
FilterPositive(s) ==
  IF s = <<>> THEN <<>>
  ELSE IF Head(s).score > 0 THEN <<Head(s)>> \o FilterPositive(Tail(s))
  ELSE FilterPositive(Tail(s))

RECURSIVE ScoreFrom(_, _, _, _, _)
ScoreFrom(i, sv, wx, age, rnd) ==
  IF i > Len(Catalog) THEN <<>>
  ELSE IF overlapsWithRecurringTasks(Catalog[i]) THEN ScoreFrom(i + 1, sv, wx, age, rnd)
  ELSE <<[activity |-> i, score |-> scoreActivity(Catalog[i], sv, wx, age, rnd[i])]>>
       \o ScoreFrom(i + 1, sv, wx, age, rnd)


\* ---------------------------------------------------------------- selection
\* Selections are sequences of Catalog indices (the objects of the array).
RECURSIVE FirstPass(_, _, _, _, _)
FirstPass(sorted, i, selected, usedCategories, count) ==
  IF i > Len(sorted) \/ Len(selected) >= count THEN selected
  ELSE LET act == sorted[i].activity
       IN IF Catalog[act].category \notin usedCategories
          THEN FirstPass(sorted, i + 1, Append(selected, act),
                         usedCategories \cup {Catalog[act].category}, count)
          ELSE FirstPass(sorted, i + 1, selected, usedCategories, count)

RECURSIVE SecondPass(_, _, _, _)
SecondPass(sorted, i, selected, count) ==
  IF i > Len(sorted) \/ Len(selected) >= count THEN selected
  ELSE IF ~InSeq(sorted[i].activity, selected)
       THEN SecondPass(sorted, i + 1, Append(selected, sorted[i].activity), count)
       ELSE SecondPass(sorted, i + 1, selected, count)

\* the selection by score alone: the second pass without the first
pickTopActivities(scored, count) ==
  LET sorted == SortDesc(scored)
  IN SecondPass(sorted, 1, <<>>, count)

pickDiverseActivities(scored, count) ==
  LET sorted == SortDesc(scored)
  IN SecondPass(sorted, 1, FirstPass(sorted, 1, <<>>, {}, count), count)

CategoriesOf(selected) == { Catalog[selected[k]].category : k \in 1..Len(selected) }

\* scheduledTimes[i] || scheduledTimes[scheduledTimes.length - 1] || 570, i from 0
SlotTimeAt(scheduledTimes, i) ==
  IF i + 1 <= Len(scheduledTimes) /\ scheduledTimes[i + 1] # 0 THEN scheduledTimes[i + 1]
  ELSE IF Len(scheduledTimes) > 0 /\ scheduledTimes[Len(scheduledTimes)] # 0
       THEN scheduledTimes[Len(scheduledTimes)]
  ELSE FallbackSlotTime

EndsAfterCutoff(act, scheduledMins) ==
  isCafeOrFoodActivity(Catalog[act]) /\ scheduledMins + Catalog[act].duration > CafeCutoff

\* the inner loop over sorted: the first entry taken, 0 when the loop ends
\* without a break; diverse says whether the category test applies
\* the inner loop without the category test
RECURSIVE FirstTakenAnyCategory(_, _, _, _, _)
FirstTakenAnyCategory(sorted, j, selected, scheduledMins, diverse) ==
  IF j > Len(sorted) THEN 0
  ELSE LET act == sorted[j].activity
       IN IF InSeq(act, selected)
          THEN FirstTakenAnyCategory(sorted, j + 1, selected, scheduledMins, diverse)
          ELSE IF EndsAfterCutoff(act, scheduledMins)
          THEN FirstTakenAnyCategory(sorted, j + 1, selected, scheduledMins, diverse)
          ELSE act

\* the inner loop without the test that skips what is already selected
RECURSIVE FirstTakenAgain(_, _, _, _, _)
FirstTakenAgain(sorted, j, selected, scheduledMins, diverse) ==
  IF j > Len(sorted) THEN 0
  ELSE LET act == sorted[j].activity
       IN IF EndsAfterCutoff(act, scheduledMins)
          THEN FirstTakenAgain(sorted, j + 1, selected, scheduledMins, diverse)
          ELSE IF ~diverse
                  \/ Catalog[act].category \notin CategoriesOf(selected)
                  \/ 2 * Len(selected) >= Len(sorted)
          THEN act
          ELSE FirstTakenAgain(sorted, j + 1, selected, scheduledMins, diverse)

RECURSIVE FirstTaken(_, _, _, _, _)
FirstTaken(sorted, j, selected, scheduledMins, diverse) ==
  IF j > Len(sorted) THEN 0
  ELSE LET act == sorted[j].activity
       IN IF InSeq(act, selected) THEN FirstTaken(sorted, j + 1, selected, scheduledMins, diverse)
          ELSE IF EndsAfterCutoff(act, scheduledMins)
          THEN FirstTaken(sorted, j + 1, selected, scheduledMins, diverse)
          ELSE IF ~diverse
                  \/ Catalog[act].category \notin CategoriesOf(selected)
                  \/ 2 * Len(selected) >= Len(sorted)
          THEN act
          ELSE FirstTaken(sorted, j + 1, selected, scheduledMins, diverse)

RECURSIVE SlotLoop(_, _, _, _, _)
SlotLoop(sorted, i, selected, count, scheduledTimes) ==
  IF ~(i < count /\ Len(selected) < count) THEN selected
  ELSE LET act == FirstTaken(sorted, 1, selected, SlotTimeAt(scheduledTimes, i), TRUE)
       IN SlotLoop(sorted, i + 1, IF act = 0 THEN selected ELSE Append(selected, act),
                   count, scheduledTimes)

RECURSIVE FillLoop(_, _, _, _, _)
FillLoop(sorted, i, selected, count, scheduledTimes) ==
  IF ~(i < count) THEN selected
  ELSE LET act == FirstTaken(sorted, 1, selected, SlotTimeAt(scheduledTimes, i), FALSE)
       IN FillLoop(sorted, i + 1, IF act = 0 THEN selected ELSE Append(selected, act),
                   count, scheduledTimes)

pickDiverseActivitiesWithTimeConstraints(scored, count, scheduledTimes) ==
  LET sorted == SortDesc(scored)
      first == SlotLoop(sorted, 0, <<>>, count, scheduledTimes)
  IN FillLoop(sorted, Len(first), first, count, scheduledTimes)

\* the scored candidates of one call: Catalog minus the walk/stroll/bath
\* matches, each with its score
ScoredAll(sv, wx, age, rnd) == ScoreFrom(1, sv, wx, age, rnd)

\* scheduledTimes = <<>> stands for an absent or empty argument
selectBonusActivities(sv, wx, age, count, scheduledTimes, rnd) ==
  LET scored == FilterPositive(ScoredAll(sv, wx, age, rnd))
  IN IF Len(scheduledTimes) > 0
     THEN pickDiverseActivitiesWithTimeConstraints(scored, count, scheduledTimes)
     ELSE pickDiverseActivities(scored, count)

RECURSIVE ReplacementCandidates(_, _, _, _, _, _, _)
ReplacementCandidates(i, sv, wx, age, excludeActivityIds, scheduledMinutes, rnd) ==
  IF i > Len(Catalog) THEN <<>>
  ELSE LET rest == ReplacementCandidates(i + 1, sv, wx, age, excludeActivityIds,
                                         scheduledMinutes, rnd)
       IN IF overlapsWithRecurringTasks(Catalog[i]) THEN rest
          ELSE IF Catalog[i].id \in excludeActivityIds THEN rest
          ELSE IF scheduledMinutes # Undefined /\ EndsAfterCutoff(i, scheduledMinutes) THEN rest
          ELSE <<[activity |-> i,
                  score |-> scoreActivity(Catalog[i], sv, wx, age, rnd[i])]>> \o rest

\* the replacement taken from the unsorted candidates: the first, not the best
getReplacementActivityUnsorted(sv, wx, age, excludeActivityIds, scheduledMinutes, rnd) ==
  LET scored == FilterPositive(
                  ReplacementCandidates(1, sv, wx, age, excludeActivityIds,
                                        scheduledMinutes, rnd))
  IN IF Len(scored) > 0 THEN scored[1].activity ELSE 0

\* 0 stands for null
getReplacementActivity(sv, wx, age, excludeActivityIds, scheduledMinutes, rnd) ==
  LET scored == SortDesc(FilterPositive(
                  ReplacementCandidates(1, sv, wx, age, excludeActivityIds,
                                        scheduledMinutes, rnd)))
  IN IF Len(scored) > 0 THEN scored[1].activity ELSE 0


\* ------------------------------------------------------------------ inputs
DEFAULT_FEEDING_TIMES ==
  <<Clock(8, 0, FALSE), Clock(12, 0, TRUE), Clock(4, 0, TRUE), Clock(7, 30, TRUE)>>
DEFAULT_RECURRING_TASKS ==
  <<"Read 5 books", "Eating solids", "Going for a walk", "Having a bath",
    "Vestibular play", "Crawling/walking practice", "Music time">>

FeedingTimesChoices ==
  { <<>>, DEFAULT_FEEDING_TIMES, <<Clock(8, 0, FALSE), Clock(8, 15, FALSE)>> }
RecurringTasksChoices ==
  { <<>>, DEFAULT_RECURRING_TASKS, <<"Music time", "Having a bath", "Tummy time">> }
NapDurationChoices == {0, 45}

\* clauses of appointment texts
FriendTwoToFour ==
  Clause("Friend coming over 2-4pm", FALSE, TRUE, FALSE, FALSE,
         <<TT("bare", 2, 0, FALSE), TT("h_ampm", 4, 0, TRUE)>>)
DoctorAtTen ==
  Clause("doctor appointment at 10am", FALSE, FALSE, TRUE, FALSE, <<TT("h_ampm", 10, 0, FALSE)>>)
FriendAllDay ==
  Clause("friend visiting 8:30am-10pm", FALSE, TRUE, FALSE, FALSE,
         <<TT("hmm_ampm", 8, 30, FALSE), TT("h_ampm", 10, 0, TRUE)>>)
PlaydateFourToSeven ==
  Clause("playdate 4-7pm", FALSE, TRUE, FALSE, FALSE,
         <<TT("bare", 4, 0, FALSE), TT("h_ampm", 7, 0, TRUE)>>)
WalkAtEight ==
  Clause("walk with Sam at 8am", TRUE, FALSE, FALSE, FALSE, <<TT("h_ampm", 8, 0, FALSE)>>)
WalkInPark ==
  Clause("walk in the park", TRUE, FALSE, FALSE, FALSE, <<>>)
WalkAtThree ==
  Clause("walk with a friend at 3pm", TRUE, TRUE, FALSE, FALSE, <<TT("h_ampm", 3, 0, TRUE)>>)
CoffeeFiveToEight ==
  Clause("coffee 5-8", FALSE, FALSE, FALSE, TRUE,
         <<TT("bare", 5, 0, FALSE), TT("bare", 8, 0, FALSE)>>)
Library ==
  Clause("library", FALSE, FALSE, FALSE, TRUE, <<>>)

AppointmentTexts ==
  { <<>>, <<Blank>>, <<FriendTwoToFour, DoctorAtTen>>, <<FriendAllDay>>,
    <<PlaydateFourToSeven>>, <<WalkAtEight>>, <<WalkInPark, WalkAtThree>>,
    <<CoffeeFiveToEight>>, <<Library>> }

\* the survey as the Survey component completes it
Survey(energy, home, crafts, text) ==
  [energyLevel |-> energy, stayingHome |-> home, wantsCrafts |-> crafts,
   appointments |-> text, parsedAppointments |-> parseAppointments(text)]

WeatherChoices == { NoWeather, Weather(TRUE, FALSE), Weather(FALSE, TRUE), Weather(FALSE, FALSE) }
AgeChoices == {5, 13, 30}

\* values of Math.random() * 20: one per Catalog entry; the entries the
\* exclusion list removes are never scored and draw nothing
RandomDraws == {0, 19}
MidDraw == 10
\* the entries whose draw varies; the other scored entries draw MidDraw
VaryingDraws == { i \in ActivityIds : i % 2 = 1 /\ ~overlapsWithRecurringTasks(Catalog[i]) }
DrawVectors ==
  { [i \in ActivityIds |->
       IF i \in VaryingDraws THEN v[i]
       ELSE IF overlapsWithRecurringTasks(Catalog[i]) THEN 0 ELSE MidDraw] :
    v \in [VaryingDraws -> RandomDraws] }

\* ------------------------------------------------------------------- state
VARIABLES prefs, survey, weather, babyAgeMonths,
          pc, idx, scheduledTimes, items, bonusActivities, placed,
          call, result, scores,
          view, fetch, checklist, stored, invoked, mutations

vars == <<prefs, survey, weather, babyAgeMonths,
          pc, idx, scheduledTimes, items, bonusActivities, placed,
          call, result, scores,
          view, fetch, checklist, stored, invoked, mutations>>

inputVars == <<prefs, survey, weather, babyAgeMonths>>
runVars == <<pc, idx, scheduledTimes, items, bonusActivities, placed>>
apiVars == <<call, result, scores>>
pageVars == <<view, fetch, checklist, stored, invoked, mutations>>

Appointments == survey.parsedAppointments

\* ---------------------------------------------------- position in the run
Stages == <<"feeds", "appointments", "naps", "recurring", "select", "bonus", "sort", "done">>

StageLen(k, p, nBonus) ==
  CASE Stages[k] = "feeds"     -> Len(p.feedingTimes)
    [] Stages[k] = "naps"      -> IF p.napsPerDay > 0 THEN p.napsPerDay ELSE 0
    [] Stages[k] = "recurring" -> Len(p.recurringTasks)
    [] Stages[k] = "bonus"     -> nBonus
    [] OTHER                   -> 1

\* the position when a loop over an empty list is never left
RECURSIVE PositionStopsAtEmptyLoop(_, _, _, _)
PositionStopsAtEmptyLoop(k, i, p, nBonus) ==
  IF Stages[k] = "done" THEN [pc |-> "done", idx |-> 0]
  ELSE IF i < StageLen(k, p, nBonus) THEN [pc |-> Stages[k], idx |-> i]
  ELSE IF StageLen(k, p, nBonus) = 0 THEN [pc |-> "blocked", idx |-> 0]
  ELSE PositionStopsAtEmptyLoop(k + 1, 0, p, nBonus)

RECURSIVE Position(_, _, _, _)
Position(k, i, p, nBonus) ==
  IF Stages[k] = "done" THEN [pc |-> "done", idx |-> 0]
  ELSE IF i < StageLen(k, p, nBonus) THEN [pc |-> Stages[k], idx |-> i]
  ELSE Position(k + 1, 0, p, nBonus)

StageIndex(st) == CHOOSE k \in 1..Len(Stages) : Stages[k] = st

\* the step after iteration idx of the current stage
Goto(nBonus) ==
  LET pos == Position(StageIndex(pc), idx + 1, prefs, nBonus)
  IN pc' = pos.pc /\ idx' = pos.idx


\* -------------------------------------------------------- slot allocation
\* the overlap test with the second comparison against the wrong end
OverlapsWrongEnd(start, end, slot) == start < slot.end /\ end > slot.end

Overlaps(start, end, slot) == start < slot.end /\ end > slot.start

isSlotAvailable(sched, start, end) ==
  IF end > END_BY_TIME THEN FALSE
  ELSE \A k \in 1..Len(sched) : ~Overlaps(start, end, sched[k])

isSlotAvailableNoEndLimit(sched, start, end) ==
  \A k \in 1..Len(sched) : ~Overlaps(start, end, sched[k])

\* for (mins = from; mins >= 420; mins -= 15): the first free start, or Undefined
RECURSIVE ScanBackward(_, _, _)
ScanBackward(sched, mins, duration) ==
  IF ~(mins >= DayStart) THEN Undefined
  ELSE IF isSlotAvailable(sched, mins, mins + duration) THEN mins
  ELSE ScanBackward(sched, mins - Step, duration)

\* for (mins = from; mins <= END_BY_TIME - duration; mins += 15)
RECURSIVE ScanForward(_, _, _)
ScanForward(sched, mins, duration) ==
  IF ~(mins <= END_BY_TIME - duration) THEN Undefined
  ELSE IF isSlotAvailable(sched, mins, mins + duration) THEN mins
  ELSE ScanForward(sched, mins + Step, duration)

\* findNextSlot without the final backward search
findNextSlotNoBackward(sched, preferredMins, duration) ==
  LET late == IF preferredMins + duration > END_BY_TIME
              THEN ScanBackward(sched, END_BY_TIME - duration, duration)
              ELSE Undefined
  IN IF late # Undefined THEN late
     ELSE IF isSlotAvailable(sched, preferredMins, preferredMins + duration) THEN preferredMins
     ELSE LET fwd == ScanForward(sched, preferredMins + Step, duration)
          IN IF fwd # Undefined THEN fwd ELSE preferredMins

\* findNextSlot with the two last searches exchanged: backward, then forward
findNextSlotBackwardFirst(sched, preferredMins, duration) ==
  LET late == IF preferredMins + duration > END_BY_TIME
              THEN ScanBackward(sched, END_BY_TIME - duration, duration)
              ELSE Undefined
  IN IF late # Undefined THEN late
     ELSE IF isSlotAvailable(sched, preferredMins, preferredMins + duration) THEN preferredMins
     ELSE LET back == ScanBackward(sched, preferredMins - Step, duration)
          IN IF back # Undefined THEN back
             ELSE LET fwd == ScanForward(sched, preferredMins + Step, duration)
                  IN IF fwd # Undefined THEN fwd ELSE preferredMins

findNextSlot(sched, preferredMins, duration) ==
  LET late == IF preferredMins + duration > END_BY_TIME
              THEN ScanBackward(sched, END_BY_TIME - duration, duration)
              ELSE Undefined
  IN IF late # Undefined THEN late
     ELSE IF isSlotAvailable(sched, preferredMins, preferredMins + duration) THEN preferredMins
     ELSE LET fwd == ScanForward(sched, preferredMins + Step, duration)
          IN IF fwd # Undefined THEN fwd
             ELSE LET back == ScanBackward(sched, preferredMins - Step, duration)
                  IN IF back # Undefined THEN back ELSE preferredMins

\* the number of starts findNextSlot tests with isSlotAvailable: the
\* iterations of its loops plus the test of the preferred time
RECURSIVE ScanBackwardSteps(_, _, _)
ScanBackwardSteps(sched, mins, duration) ==
  IF ~(mins >= DayStart) THEN 0
  ELSE IF isSlotAvailable(sched, mins, mins + duration) THEN 1
  ELSE 1 + ScanBackwardSteps(sched, mins - Step, duration)

RECURSIVE ScanForwardSteps(_, _, _)
ScanForwardSteps(sched, mins, duration) ==
  IF ~(mins <= END_BY_TIME - duration) THEN 0
  ELSE IF isSlotAvailable(sched, mins, mins + duration) THEN 1
  ELSE 1 + ScanForwardSteps(sched, mins + Step, duration)

findNextSlotSteps(sched, preferredMins, duration) ==
  LET isLate == preferredMins + duration > END_BY_TIME
      late == IF isLate THEN ScanBackward(sched, END_BY_TIME - duration, duration) ELSE Undefined
      lateSteps == IF isLate THEN ScanBackwardSteps(sched, END_BY_TIME - duration, duration) ELSE 0
  IN IF late # Undefined THEN lateSteps
     ELSE IF isSlotAvailable(sched, preferredMins, preferredMins + duration) THEN lateSteps + 1
     ELSE IF ScanForward(sched, preferredMins + Step, duration) # Undefined
     THEN lateSteps + 1 + ScanForwardSteps(sched, preferredMins + Step, duration)
     ELSE lateSteps + 1 + ScanForwardSteps(sched, preferredMins + Step, duration)
          + ScanBackwardSteps(sched, preferredMins - Step, duration)

\* ------------------------------------------------------------------ items
Task(text, n, dur, with) == [text |-> text, n |-> n, dur |-> dur, with |-> with]

\* canOverlap and socialActivity are "absent", "true" or "false"; activity is
\* a Catalog index, 0 when absent; isEdited is FALSE when absent
Item(id, type, task, time, mins, suggested, social, overlap, act) ==
  [id |-> id, type |-> type, task |-> task, completed |-> FALSE, time |-> time,
   timeBlock |-> getTimeBlock(mins), suggestedTime |-> suggested,
   socialActivity |-> social, canOverlap |-> overlap, activity |-> act,
   isEdited |-> FALSE]

Flag(b) == IF b THEN "true" ELSE "false"

\* the sort key read as a 24-hour time, AM/PM ignored
SortKeyIgnoringMeridiem(item) ==
  IF item.suggestedTime # AbsentTime
  THEN item.suggestedTime.h * 60 + item.suggestedTime.m ELSE 0

SortKey(item) ==
  IF item.suggestedTime # AbsentTime THEN parseTimeToMinutes(item.suggestedTime) ELSE 0

\* items.sort((a, b) => timeA - timeB): stable, ascending
RECURSIVE InsertByTime(_, _)
InsertByTime(sorted, x) ==
  IF sorted = <<>> THEN <<x>>
  ELSE IF SortKey(Head(sorted)) <= SortKey(x)
       THEN <<Head(sorted)>> \o InsertByTime(Tail(sorted), x)
  ELSE <<x>> \o sorted

RECURSIVE SortByTime(_)
SortByTime(s) ==
  IF s = <<>> THEN <<>> ELSE InsertByTime(SortByTime(SubSeq(s, 1, Len(s) - 1)), s[Len(s)])

\* ------------------------------------------------- recurring task table
napTimes == <<Clock(10, 0, FALSE), Clock(2, 30, TRUE)>>
bonusDefaultTimes == <<570, 810, 930>>

Slot(t, d, s, x, ex) ==
  [time |-> t, duration |-> d, social |-> s, exclusive |-> x, exemptFromEndTime |-> ex,
   known |-> TRUE]

recurringTimeSlots(task) ==
  CASE task = "Read 5 books"              -> Slot(Clock(9, 0, FALSE), 20, TRUE, FALSE, FALSE)
    [] task = "Eating solids"             -> Slot(Clock(12, 30, TRUE), 30, FALSE, TRUE, FALSE)
    [] task = "Going for a walk"          -> Slot(Clock(3, 30, TRUE), 45, TRUE, TRUE, FALSE)
    [] task = "Having a bath"             -> Slot(Clock(6, 0, TRUE), 30, FALSE, TRUE, TRUE)
    [] task = "Vestibular play"           -> Slot(Clock(11, 0, FALSE), 15, TRUE, FALSE, FALSE)
    [] task = "Crawling/walking practice" -> Slot(Clock(2, 30, TRUE), 20, TRUE, FALSE, FALSE)
    [] task = "Music time"                -> Slot(Clock(4, 30, TRUE), 15, TRUE, FALSE, FALSE)
    [] OTHER -> [Slot(Clock(9, 0, FALSE), DefaultTaskDuration, FALSE, FALSE, FALSE)
                   EXCEPT !.known = FALSE]

visitorFriendlyTasks ==
  <<"Read 5 books", "Going for a walk", "Vestibular play", "Crawling/walking practice",
    "Music time">>

IndexOf(x, s) == CHOOSE k \in 1..Len(s) : s[k] = x

\* appointments.find(pred): the index of the first match, 0 when there is none
FirstVisitor(apts) ==
  IF \E k \in 1..Len(apts) : apts[k].type = "visitor"
  THEN CHOOSE k \in 1..Len(apts) :
         apts[k].type = "visitor" /\ \A j \in 1..(k - 1) : apts[j].type # "visitor"
  ELSE 0

FirstFulfilling(apts, task) ==
  IF \E k \in 1..Len(apts) : apts[k].fulfillsTask = task
  THEN CHOOSE k \in 1..Len(apts) :
         apts[k].fulfillsTask = task /\ \A j \in 1..(k - 1) : apts[j].fulfillsTask # task
  ELSE 0

HasVisitorWindow(apts) ==
  /\ FirstVisitor(apts) # 0
  /\ apts[FirstVisitor(apts)].startMins # Undefined
  /\ apts[FirstVisitor(apts)].endMins # Undefined

\* visitorApt.startMins + Math.floor(visitorDuration * num / den)
InVisitorWindow(apts, num, den) ==
  LET v == apts[FirstVisitor(apts)]
  IN v.startMins + ((v.endMins - v.startMins) * num) \div den

RecurringPreferred(apts, task) ==
  IF HasVisitorWindow(apts) /\ InSeq(task, visitorFriendlyTasks)
  THEN InVisitorWindow(apts, IndexOf(task, visitorFriendlyTasks), Len(visitorFriendlyTasks) + 1)
  ELSE parseTimeToMinutes(recurringTimeSlots(task).time)

BonusPreferred(apts, act, index) ==
  IF /\ HasVisitorWindow(apts)
     /\ Catalog[act].indoor
     /\ Catalog[act].category \in {"sensory", "social", "creative"}
  THEN InVisitorWindow(apts, index + 1, 4)
  ELSE bonusDefaultTimes[index + 1]

\* the recurring task is emitted at the time of an appointment that fulfils it
IsFulfilled(apts, task) ==
  /\ FirstFulfilling(apts, task) # 0
  /\ apts[FirstFulfilling(apts, task)].startMins # Undefined


\* ------------------------------------------------------ generateChecklist
NoCall == [op |-> "none", count |-> 0, scheduledTimes |-> <<>>,
           excludeActivityIds |-> {}, scheduledMinutes |-> Undefined,
           text |-> <<>>, time |-> AbsentTime, minutes |-> Undefined]

\* useState<DailySurvey | null>(null)
NoSurvey ==
  [energyLevel |-> "null", stayingHome |-> FALSE, wantsCrafts |-> FALSE,
   appointments |-> <<>>, parsedAppointments |-> <<>>]

\* no call of generateChecklist made by the page
NoInvocation == [called |-> FALSE, fetch |-> "idle", weather |-> NoWeather]

\* the library called without the Home page
Unmounted ==
  /\ view = "unmounted"
  /\ fetch = "idle"
  /\ checklist = "null"
  /\ stored = [survey |-> NoSurvey, checklist |-> FALSE]
  /\ invoked = NoInvocation
  /\ mutations = 0

\* contexts of the generation runs
RunSurveys ==
  { Survey("medium", home, FALSE, text) : home \in BOOLEAN, text \in AppointmentTexts }
RunWeathers == { NoWeather, Weather(FALSE, TRUE) }
RunAge == 8

Init ==
  /\ prefs \in [feedingTimes : FeedingTimesChoices, napsPerDay : 0..MaxNaps,
                napDuration : NapDurationChoices, recurringTasks : RecurringTasksChoices]
  /\ survey \in RunSurveys
  /\ weather \in RunWeathers
  /\ babyAgeMonths = RunAge
  /\ pc = Position(1, 0, prefs, 0).pc
  /\ idx = 0
  /\ scheduledTimes = <<>>
  /\ items = <<>>
  /\ bonusActivities = <<>>
  /\ placed = <<>>
  /\ call = NoCall
  /\ result = <<>>
  /\ scores = <<>>
  /\ Unmounted

\* where a feed goes: its configured time, whatever is occupied
FeedMinsRelocated(sched, time) ==
  findNextSlot(sched, parseTimeToMinutes(time), FeedDuration)

FeedMins(sched, time) == parseTimeToMinutes(time)

\* where a recurring task goes: the bath stays at its preferred time, the
\* others ask the allocator
RecurringMinsNoExemption(sched, defaultSlot, preferredMins) ==
  findNextSlot(sched, preferredMins, defaultSlot.duration)

RecurringMins(sched, defaultSlot, preferredMins) ==
  IF defaultSlot.exemptFromEndTime
  THEN (IF isSlotAvailableNoEndLimit(sched, preferredMins, preferredMins + defaultSlot.duration)
        THEN preferredMins ELSE preferredMins)
  ELSE findNextSlot(sched, preferredMins, defaultSlot.duration)

\* the interval put in front of the occupied set
unshift(sched, slot) == <<slot>> \o sched

\* scheduledTimes.push({ start, end })
push(sched, slot) == Append(sched, slot)

\* one placement decided by the allocator: the interval count it saw, what
\* was asked and what was answered
Placement(id, via, preferredMins, duration, mins) ==
  [id |-> id, via |-> via, preferred |-> preferredMins, duration |-> duration,
   mins |-> mins, seen |-> Len(scheduledTimes),
   steps |-> IF via = "findNextSlot"
             THEN findNextSlotSteps(scheduledTimes, preferredMins, duration) ELSE 0]

\* preferences.feedingTimes.forEach: one feed
AddFeed ==
  /\ pc = "feeds"
  /\ LET mins == FeedMins(scheduledTimes, prefs.feedingTimes[idx + 1])
     IN /\ scheduledTimes' = push(scheduledTimes, [start |-> mins, end |-> mins + FeedDuration])
        /\ items' = Append(items,
                      Item(<<"feeding", idx>>, "feeding", Task("Feed baby", 0, 0, ""),
                           minutesToTimeString(mins), mins, minutesToTimeString(mins),
                           "absent", "absent", 0))
  /\ Goto(0)
  /\ UNCHANGED <<pageVars, inputVars, bonusActivities, placed, apiVars>>

\* the registration without the test for the two minute fields
RECURSIVE TimedIntervalsUntested(_)
TimedIntervalsUntested(apts) ==
  IF apts = <<>> THEN <<>>
  ELSE <<[start |-> Head(apts).startMins, end |-> Head(apts).endMins]>>
       \o TimedIntervalsUntested(Tail(apts))

RECURSIVE TimedIntervals(_)
TimedIntervals(apts) ==
  IF apts = <<>> THEN <<>>
  ELSE IF Head(apts).startMins # Undefined /\ Head(apts).endMins # Undefined
       THEN <<[start |-> Head(apts).startMins, end |-> Head(apts).endMins]>>
            \o TimedIntervals(Tail(apts))
  ELSE TimedIntervals(Tail(apts))

\* for (const apt of appointments): the timed appointments become occupied
AddAppointments ==
  /\ pc = "appointments"
  /\ scheduledTimes' = scheduledTimes \o TimedIntervals(Appointments)
  /\ Goto(0)
  /\ UNCHANGED <<pageVars, inputVars, items, bonusActivities, placed, apiVars>>

\* one iteration of the nap loop
AddNap ==
  /\ pc = "naps"
  /\ LET napTime == IF idx + 1 <= Len(napTimes) THEN napTimes[idx + 1] ELSE napTimes[Len(napTimes)]
         preferredMins == parseTimeToMinutes(napTime)
         duration == IF prefs.napDuration # 0 THEN prefs.napDuration ELSE DefaultNapDuration
         mins == findNextSlot(scheduledTimes, preferredMins, duration)
     IN /\ scheduledTimes' = push(scheduledTimes, [start |-> mins, end |-> mins + duration])
        /\ items' = Append(items,
                      Item(<<"nap", idx>>, "nap", Task("Nap", idx + 1, duration, ""),
                           AbsentTime, mins, minutesToTimeString(mins), "absent", "absent", 0))
        /\ placed' = Append(placed,
                       Placement(<<"nap", idx>>, "findNextSlot", preferredMins, duration, mins))
  /\ Goto(0)
  /\ UNCHANGED <<pageVars, inputVars, bonusActivities, apiVars>>

\* preferences.recurringTasks.forEach: one task
AddRecurring ==
  /\ pc = "recurring"
  /\ LET task == prefs.recurringTasks[idx + 1]
         defaultSlot == recurringTimeSlots(task)
     IN IF IsFulfilled(Appointments, task)
        THEN LET apt == Appointments[FirstFulfilling(Appointments, task)]
             IN /\ items' = Append(items,
                              Item(<<"recurring", idx>>, "recurring",
                                   Task(task, 0, 0, apt.description),
                                   AbsentTime, apt.startMins, apt.startTime,
                                   "absent", "absent", 0))
                /\ UNCHANGED <<scheduledTimes, placed>>
        ELSE LET preferredMins == RecurringPreferred(Appointments, task)
                 mins == RecurringMins(scheduledTimes, defaultSlot, preferredMins)
             IN /\ scheduledTimes' = push(scheduledTimes,
                                       [start |-> mins, end |-> mins + defaultSlot.duration])
                /\ items' = Append(items,
                              Item(<<"recurring", idx>>, "recurring", Task(task, 0, 0, ""),
                                   AbsentTime, mins, minutesToTimeString(mins),
                                   IF defaultSlot.known THEN Flag(defaultSlot.social) ELSE "absent",
                                   Flag(~defaultSlot.exclusive), 0))
                /\ placed' = Append(placed,
                               Placement(<<"recurring", idx>>,
                                         IF defaultSlot.exemptFromEndTime THEN "exempt"
                                         ELSE "findNextSlot",
                                         preferredMins, defaultSlot.duration, mins))
  /\ Goto(0)
  /\ UNCHANGED <<pageVars, inputVars, bonusActivities, apiVars>>

\* const bonusActivities = selectBonusActivities(survey, weather, 3)
SelectBonus ==
  /\ pc = "select"
  /\ \E rnd \in DrawVectors :
       /\ bonusActivities' = selectBonusActivities(survey, weather, babyAgeMonths,
                                                   BonusCount, <<>>, rnd)
       /\ Goto(Len(bonusActivities'))
  /\ UNCHANGED <<pageVars, inputVars, scheduledTimes, items, placed, apiVars>>

\* bonusActivities.forEach: one activity
AddBonus ==
  /\ pc = "bonus"
  /\ LET act == bonusActivities[idx + 1]
         duration == Catalog[act].duration
         preferredMins == BonusPreferred(Appointments, act, idx)
         mins == findNextSlot(scheduledTimes, preferredMins, duration)
     IN /\ scheduledTimes' = push(scheduledTimes, [start |-> mins, end |-> mins + duration])
        /\ items' = Append(items,
                      Item(<<"bonus", idx>>, "bonus", Task("bonus", act, duration, ""),
                           AbsentTime, mins, minutesToTimeString(mins), "absent", "absent", act))
        /\ placed' = Append(placed,
                       Placement(<<"bonus", idx>>, "findNextSlot", preferredMins, duration, mins))
  /\ Goto(Len(bonusActivities))
  /\ UNCHANGED <<pageVars, inputVars, bonusActivities, apiVars>>

\* items.sort(...); return items
SortItems ==
  /\ pc = "sort"
  /\ items' = SortByTime(items)
  /\ Goto(Len(bonusActivities))
  /\ UNCHANGED <<pageVars, inputVars, scheduledTimes, bonusActivities, placed, apiVars>>

Next ==
  \/ AddFeed
  \/ AddAppointments
  \/ AddNap
  \/ AddRecurring
  \/ SelectBonus
  \/ AddBonus
  \/ SortItems

Spec == Init /\ [][Next]_vars

\* ------------------------------------- the selection functions, called alone
SelectSurveys ==
  { Survey(energy, home, crafts, text) :
      energy \in {"low", "medium", "high"}, home \in BOOLEAN, crafts \in BOOLEAN,
      text \in { <<>>, <<Blank>>, <<DoctorAtTen>> } }

SlotTimesChoices == { <<>>, <<570, 810, 930>>, <<870>>, <<840>>, <<930, 930, 570>> }
ExcludeChoices ==
  { {}, {Catalog[1].id}, {Catalog[1].id, Catalog[3].id, Catalog[5].id} }
ScheduledMinutesChoices == {Undefined, 570, 870}

InitSelect ==
  /\ prefs = [feedingTimes |-> DEFAULT_FEEDING_TIMES, napsPerDay |-> 2,
              napDuration |-> 30, recurringTasks |-> DEFAULT_RECURRING_TASKS]
  /\ survey \in SelectSurveys
  /\ weather \in WeatherChoices
  /\ babyAgeMonths \in AgeChoices
  /\ pc = "api"
  /\ idx = 0
  /\ scheduledTimes = <<>>
  /\ items = <<>>
  /\ bonusActivities = <<>>
  /\ placed = <<>>
  /\ call = NoCall
  /\ result = <<>>
  /\ scores = <<>>
  /\ Unmounted

\* selectBonusActivities(survey, weather, count, scheduledTimes?)
CallSelectBonusActivities ==
  /\ pc = "api"
  /\ \E count \in 0..MaxCount, times \in SlotTimesChoices, rnd \in DrawVectors :
       /\ call' = [NoCall EXCEPT !.op = "selectBonusActivities", !.count = count,
                                 !.scheduledTimes = times]
       /\ scores' = ScoredAll(survey, weather, babyAgeMonths, rnd)
       /\ result' = selectBonusActivities(survey, weather, babyAgeMonths, count, times, rnd)
  /\ pc' = "returned"
  /\ UNCHANGED <<pageVars, inputVars, idx, scheduledTimes, items, bonusActivities, placed>>

\* getReplacementActivity(survey, weather, excludeActivityIds, scheduledMinutes?)
CallGetReplacementActivity ==
  /\ pc = "api"
  /\ \E excluded \in ExcludeChoices, mins \in ScheduledMinutesChoices, rnd \in DrawVectors :
       /\ call' = [NoCall EXCEPT !.op = "getReplacementActivity",
                                 !.excludeActivityIds = excluded, !.scheduledMinutes = mins]
       /\ scores' = ReplacementCandidates(1, survey, weather, babyAgeMonths, excluded, mins, rnd)
       /\ LET r == getReplacementActivity(survey, weather, babyAgeMonths, excluded, mins, rnd)
          IN result' = IF r = 0 THEN <<>> ELSE <<r>>
  /\ pc' = "returned"
  /\ UNCHANGED <<pageVars, inputVars, idx, scheduledTimes, items, bonusActivities, placed>>

NextSelect ==
  \/ CallSelectBonusActivities
  \/ CallGetReplacementActivity

SpecSelect == InitSelect /\ [][NextSelect]_vars


\* ------------------------------------- the parser and the time utilities, called alone
\* time tokens an appointment clause can hold
TimeTokens ==
  { TT("bare", 2, 0, FALSE), TT("bare", 5, 0, FALSE), TT("bare", 8, 0, FALSE),
    TT("h_ampm", 4, 0, TRUE), TT("h_ampm", 10, 0, FALSE), TT("h_ampm", 1, 0, TRUE),
    TT("hmm_ampm", 8, 30, FALSE), TT("hhmm", 14, 0, FALSE) }

TimeTokenSeqs ==
  ({<<>>} \cup { <<t>> : t \in TimeTokens }) \cup { <<t1, t2>> : t1 \in TimeTokens, t2 \in TimeTokens }

\* one-clause texts: every combination of keyword groups and time tokens
OneClauseTexts ==
  { <<Clause("clause", wk, vs, md, vn, ts)>> :
      wk \in BOOLEAN, vs \in BOOLEAN, md \in BOOLEAN, vn \in BOOLEAN, ts \in TimeTokenSeqs }

ParseTexts == OneClauseTexts \cup AppointmentTexts \cup { <<WalkAtThree, Blank, Library>> }

\* "H:MM AM" and "H:MM PM", H in 1..12 without leading zero, MM in 00..59
CanonicalTimes == { Clock(hh, mm, p) : hh \in 1..12, mm \in 0..59, p \in BOOLEAN }
MinutesOfDay == 0..(24 * 60 - 1)

InitParse ==
  /\ prefs = [feedingTimes |-> DEFAULT_FEEDING_TIMES, napsPerDay |-> 2,
              napDuration |-> 30, recurringTasks |-> DEFAULT_RECURRING_TASKS]
  /\ survey = Survey("medium", FALSE, FALSE, <<>>)
  /\ weather = NoWeather
  /\ babyAgeMonths = RunAge
  /\ pc = "api"
  /\ idx = 0
  /\ scheduledTimes = <<>>
  /\ items = <<>>
  /\ bonusActivities = <<>>
  /\ placed = <<>>
  /\ call = NoCall
  /\ result = <<>>
  /\ scores = <<>>
  /\ Unmounted

\* parseAppointments(text)
CallParseAppointments ==
  /\ pc = "api"
  /\ \E text \in ParseTexts :
       /\ call' = [NoCall EXCEPT !.op = "parseAppointments", !.text = text]
       /\ result' = parseAppointments(text)
  /\ pc' = "returned"
  /\ UNCHANGED <<pageVars, inputVars, idx, scheduledTimes, items, bonusActivities, placed, scores>>

\* minutesToTimeString(parseTimeToMinutes(time)), as for a feed
FormatParsedTime ==
  /\ pc = "api"
  /\ \E time \in CanonicalTimes :
       /\ call' = [NoCall EXCEPT !.op = "formatParsed", !.time = time]
       /\ result' = <<minutesToTimeString(parseTimeToMinutes(time))>>
  /\ pc' = "returned"
  /\ UNCHANGED <<pageVars, inputVars, idx, scheduledTimes, items, bonusActivities, placed, scores>>

\* parseTimeToMinutes(minutesToTimeString(mins)), as for the sort key of an item
ParseFormattedMinutes ==
  /\ pc = "api"
  /\ \E mins \in MinutesOfDay :
       /\ call' = [NoCall EXCEPT !.op = "parseFormatted", !.minutes = mins]
       /\ result' = <<parseTimeToMinutes(minutesToTimeString(mins))>>
  /\ pc' = "returned"
  /\ UNCHANGED <<pageVars, inputVars, idx, scheduledTimes, items, bonusActivities, placed, scores>>

NextParse ==
  \/ CallParseAppointments
  \/ FormatParsedTime
  \/ ParseFormattedMinutes

SpecParse == InitParse /\ [][NextParse]_vars

\* ------------------------------------------------------------ the Home page
\* the surveys the Survey component hands over
HomeSurveys ==
  { Survey("medium", FALSE, FALSE, <<>>), Survey("low", TRUE, FALSE, <<DoctorAtTen>>),
    Survey("high", FALSE, TRUE, <<WalkAtEight>>) }

\* what fetchWeather resolves with
FetchedWeathers == { Weather(FALSE, TRUE), Weather(TRUE, FALSE) }

\* what localStorage holds for today when the page mounts
StoredChoices ==
  { [survey |-> NoSurvey, checklist |-> FALSE] }
  \cup { [survey |-> sv, checklist |-> b] : sv \in HomeSurveys, b \in BOOLEAN }

\* the first render: view 'loading', survey, checklist and weather null
InitHome ==
  /\ prefs = [feedingTimes |-> DEFAULT_FEEDING_TIMES, napsPerDay |-> 2,
              napDuration |-> 30, recurringTasks |-> DEFAULT_RECURRING_TASKS]
  /\ survey = NoSurvey
  /\ weather = NoWeather
  /\ babyAgeMonths = RunAge
  /\ pc = "page"
  /\ idx = 0
  /\ scheduledTimes = <<>>
  /\ items = <<>>
  /\ bonusActivities = <<>>
  /\ placed = <<>>
  /\ call = NoCall
  /\ result = <<>>
  /\ scores = <<>>
  /\ view = "loading"
  /\ fetch = "idle"
  /\ checklist = "null"
  /\ stored \in StoredChoices
  /\ invoked = NoInvocation
  /\ mutations = 0

\* the mount effect: initialize() runs up to await loadWeather(), which runs
\* up to await fetchWeather(...)
Initialize ==
  /\ pc = "page"
  /\ view = "loading"
  /\ fetch = "idle"
  /\ fetch' = "pending"
  /\ UNCHANGED <<inputVars, runVars, apiVars, view, checklist, stored, invoked, mutations>>

\* loadWeather, the fetch fulfilled: setWeather(weatherData); return weatherData
LoadWeatherResolved ==
  /\ pc = "page"
  /\ fetch = "pending"
  /\ \E weatherData \in FetchedWeathers : weather' = weatherData
  /\ fetch' = "resolved"
  /\ UNCHANGED <<prefs, survey, babyAgeMonths, runVars, apiVars,
                 view, checklist, stored, invoked, mutations>>

\* loadWeather, the catch branch: return null
LoadWeatherFailed ==
  /\ pc = "page"
  /\ fetch = "pending"
  /\ fetch' = "rejected"
  /\ UNCHANGED <<inputVars, runVars, apiVars, view, checklist, stored, invoked, mutations>>

\* initialize going on without the await
loadWeatherNotAwaited == TRUE

\* await loadWeather() has returned
loadWeatherSettled == fetch \in {"resolved", "rejected"}

\* initialize after the await: the stored survey and checklist of today, or
\* the survey view
InitializeResumed ==
  /\ pc = "page"
  /\ view = "loading"
  /\ loadWeatherSettled
  /\ IF stored.survey # NoSurvey /\ stored.checklist
     THEN /\ survey' = stored.survey
          /\ checklist' = "set"
          /\ view' = "checklist"
     ELSE /\ view' = "survey"
          /\ UNCHANGED <<survey, checklist>>
  /\ UNCHANGED <<prefs, weather, babyAgeMonths, runVars, apiVars, fetch, stored, invoked, mutations>>

\* handleSurveyComplete up to the call: saveSurvey, setSurvey and the entry
\* into generateChecklist(surveyData, weather); the handler runs on without
\* interruption through the steps of the run to SurveyCompleted
handleSurveyComplete ==
  /\ pc = "page"
  /\ view = "survey"
  /\ \E surveyData \in HomeSurveys :
       /\ stored' = [stored EXCEPT !.survey = surveyData]
       /\ survey' = surveyData
  /\ invoked' = [called |-> TRUE, fetch |-> fetch, weather |-> weather]
  /\ pc' = Position(1, 0, prefs, 0).pc
  /\ idx' = 0
  /\ scheduledTimes' = <<>>
  /\ items' = <<>>
  /\ bonusActivities' = <<>>
  /\ placed' = <<>>
  /\ UNCHANGED <<prefs, weather, babyAgeMonths, apiVars, view, fetch, checklist, mutations>>

\* handleSurveyComplete after the call: saveChecklist, setChecklist,
\* setView('checklist')
SurveyCompleted ==
  /\ pc = "done"
  /\ view = "survey"
  /\ stored' = [stored EXCEPT !.checklist = TRUE]
  /\ checklist' = "set"
  /\ view' = "checklist"
  /\ pc' = "page"
  /\ UNCHANGED <<inputVars, idx, scheduledTimes, items, bonusActivities, placed,
                 apiVars, fetch, invoked, mutations>>

\* the Checklist component is rendered: view === 'checklist' && checklist && survey
ChecklistShown == view = "checklist" /\ checklist = "set" /\ survey # NoSurvey

handleEditSurvey ==
  /\ pc = "page"
  /\ ChecklistShown
  /\ view' = "survey"
  /\ UNCHANGED <<inputVars, runVars, apiVars, fetch, checklist, stored, invoked, mutations>>

handleStartOver ==
  /\ pc = "page"
  /\ ChecklistShown
  /\ stored' = [survey |-> NoSurvey, checklist |-> FALSE]
  /\ survey' = NoSurvey
  /\ checklist' = "null"
  /\ view' = "survey"
  /\ UNCHANGED <<prefs, weather, babyAgeMonths, runVars, apiVars, fetch, invoked, mutations>>

NextHome ==
  \/ Initialize
  \/ LoadWeatherResolved
  \/ LoadWeatherFailed
  \/ InitializeResumed
  \/ handleSurveyComplete
  \/ AddFeed
  \/ AddAppointments
  \/ AddNap
  \/ AddRecurring
  \/ SelectBonus
  \/ AddBonus
  \/ SortItems
  \/ SurveyCompleted
  \/ handleEditSurvey
  \/ handleStartOver

SpecHome == InitHome /\ [][NextHome]_vars


\* ------------------------------------------- the Checklist and its handlers
\* parseTime of the Checklist component: only "h:mm AM/PM" is read, anything
\* else is 0
parseTime(time) ==
  IF time.fmt = "hmm_ampm" THEN To24(time.h, time.pm) * 60 + time.m ELSE 0

\* a.suggestedTime ? parseTime(a.suggestedTime) : 0
ParsedKey(item) ==
  IF item.suggestedTime # AbsentTime THEN parseTime(item.suggestedTime) ELSE 0

RECURSIVE InsertByParsedKey(_, _)
InsertByParsedKey(sorted, x) ==
  IF sorted = <<>> THEN <<x>>
  ELSE IF ParsedKey(Head(sorted)) <= ParsedKey(x)
       THEN <<Head(sorted)>> \o InsertByParsedKey(Tail(sorted), x)
  ELSE <<x>> \o sorted

RECURSIVE SortByParsedKey(_)
SortByParsedKey(s) ==
  IF s = <<>> THEN <<>>
  ELSE InsertByParsedKey(SortByParsedKey(SubSeq(s, 1, Len(s) - 1)), s[Len(s)])

\* the handlers without their sort
leaveOrder(newItems) == newItems
\* newItems.sort((a, b) => timeA - timeB) of handleSaveEdit and moveItem
sortNewItems(newItems) == SortByParsedKey(newItems)

\* the block of an edited item with the evening threshold left out
newBlockUpToAfternoon(mins) ==
  IF mins >= 840 THEN "afternoon" ELSE IF mins >= 720 THEN "midday" ELSE "morning"
\* let newBlock = 'morning'; if (mins >= 720) ...; if (mins >= 840) ...;
\* if (mins >= 1020) ...
newBlock(mins) ==
  IF mins >= 1020 THEN "evening"
  ELSE IF mins >= 840 THEN "afternoon"
  ELSE IF mins >= 720 THEN "midday"
  ELSE "morning"

\* items.findIndex(i => i.id === id), counted from 1; 0 when there is none
IndexOfId(list, id) ==
  IF \E i \in 1..Len(list) : list[i].id = id
  THEN CHOOSE i \in 1..Len(list) : list[i].id = id /\ \A j \in 1..(i - 1) : list[j].id # id
  ELSE 0

ItemIds(list) == { list[i].id : i \in 1..Len(list) }

\* list.splice(index, 1), index counted from 1
RemoveAt(list, index) == SubSeq(list, 1, index - 1) \o SubSeq(list, index + 1, Len(list))
\* list.splice(index, 0, x), index counted from 1
InsertAt(list, index, x) ==
  SubSeq(list, 1, index - 1) \o <<x>> \o SubSeq(list, index, Len(list))

\* items.filter(i => i.timeBlock === block)
RECURSIVE InBlock(_, _)
InBlock(list, block) ==
  IF list = <<>> THEN <<>>
  ELSE (IF Head(list).timeBlock = block THEN <<Head(list)>> ELSE <<>>)
       \o InBlock(Tail(list), block)

\* the options of the edit dialog's time select: 6:00 AM to 8:00 PM in
\* half-hour steps; those offered to the handlers here
EditTimeOptions == { minutesToTimeString(360 + 30 * i) : i \in 0..28 }
EditTimes == { t \in EditTimeOptions : parseTime(t) \in {780, 1200} }
\* a task text typed into the edit dialog
EditedTask == Task("Edited", 0, 0, "")

\* an exclusion list that names nothing
noBonusIds(list) == {}
\* checklist.items.filter(i => i.type === 'bonus' && i.activity).map(i => i.activity.id)
currentBonusIds(list) ==
  { Catalog[list[i].activity].id :
      i \in { j \in 1..Len(list) : list[j].type = "bonus" /\ list[j].activity # 0 } }

\* the scheduled minutes handleRefreshBonusActivity reads off the time text
scheduledMinsOf(item) ==
  IF item.suggestedTime # AbsentTime /\ item.suggestedTime.fmt = "hmm_ampm"
  THEN To24(item.suggestedTime.h, item.suggestedTime.pm) * 60 + item.suggestedTime.m
  ELSE Undefined

\* the draws of a refresh: the varying entries of one category draw the same
RefreshDraws ==
  { rnd \in DrawVectors :
      \A i, j \in VaryingDraws :
        Catalog[i].category = Catalog[j].category => rnd[i] = rnd[j] }

\* the preferences in storage when the checklist is used
ChecklistPrefs ==
  [feedingTimes |-> <<Clock(8, 0, FALSE)>>, napsPerDay |-> 1,
   napDuration |-> 45, recurringTasks |-> <<"Going for a walk">>]

\* the page shows the survey, the weather fetch has settled
InitChecklist ==
  /\ prefs = ChecklistPrefs
  /\ survey = NoSurvey
  /\ \/ fetch = "resolved" /\ weather = Weather(FALSE, TRUE)
     \/ fetch = "rejected" /\ weather = NoWeather
  /\ babyAgeMonths = RunAge
  /\ pc = "page"
  /\ idx = 0
  /\ scheduledTimes = <<>>
  /\ items = <<>>
  /\ bonusActivities = <<>>
  /\ placed = <<>>
  /\ call = NoCall
  /\ result = <<>>
  /\ scores = <<>>
  /\ view = "survey"
  /\ checklist = "null"
  /\ stored = [survey |-> NoSurvey, checklist |-> FALSE]
  /\ invoked = NoInvocation
  /\ mutations = 0

\* a handler of the shown checklist may run
Mutable == pc = "page" /\ ChecklistShown /\ mutations < MaxMutations

\* call and result hold the library call made by the handler that ran last
\* and what it returned: none for the handlers that call nothing
NoLibraryCall ==
  /\ call' = NoCall
  /\ result' = <<>>
  /\ UNCHANGED scores

\* handleReorder(newItems): saveChecklist and setChecklist with the new items
handleReorder(newItems) ==
  /\ items' = newItems
  /\ mutations' = mutations + 1
  /\ NoLibraryCall
  /\ UNCHANGED <<inputVars, pc, idx, scheduledTimes, bonusActivities, placed,
                 view, fetch, checklist, stored, invoked>>

\* handleToggle(itemId): toggleChecklistItem flips completed in storage, the
\* returned checklist is set
handleToggle ==
  /\ Mutable
  /\ \E itemId \in ItemIds(items) :
       LET index == IndexOfId(items, itemId)
       IN items' = [items EXCEPT ![index].completed = ~items[index].completed]
  /\ mutations' = mutations + 1
  /\ NoLibraryCall
  /\ UNCHANGED <<inputVars, pc, idx, scheduledTimes, bonusActivities, placed,
                 view, fetch, checklist, stored, invoked>>

\* handleEditItem(item), the dialog's inputs and handleSaveEdit
handleSaveEdit ==
  /\ Mutable
  /\ \E editingId \in ItemIds(items) :
       LET editingItem == items[IndexOfId(items, editingId)]
       IN \E editTask \in {editingItem.task, EditedTask},
             editTime \in {editingItem.suggestedTime} \cup EditTimes :
            LET mins == parseTime(editTime)
                newItems == [i \in 1..Len(items) |->
                               IF items[i].id = editingItem.id
                               THEN [items[i] EXCEPT !.task = editTask,
                                                     !.suggestedTime = editTime,
                                                     !.timeBlock = newBlock(mins),
                                                     !.isEdited = TRUE]
                               ELSE items[i]]
            IN handleReorder(sortNewItems(newItems))

\* handleEditItem(item) and handleDeleteItem
handleDeleteItem ==
  /\ Mutable
  /\ \E editingId \in ItemIds(items) :
       handleReorder(SelectSeq(items, LAMBDA item : item.id # editingId))

\* handleDragStart(draggedItem) and handleDrop(targetItem)
handleDrop ==
  /\ Mutable
  /\ \E draggedId \in ItemIds(items), targetId \in ItemIds(items) :
       /\ draggedId # targetId
       /\ LET draggedIndex == IndexOfId(items, draggedId)
              targetIndex == IndexOfId(items, targetId)
              targetItem == items[targetIndex]
              removed == [items[draggedIndex] EXCEPT
                            !.timeBlock = targetItem.timeBlock,
                            !.suggestedTime = targetItem.suggestedTime]
          IN handleReorder(InsertAt(RemoveAt(items, draggedIndex), targetIndex, removed))

\* moveItem(itemId, direction)
moveItem ==
  /\ Mutable
  /\ \E itemId \in ItemIds(items), direction \in {"up", "down"} :
       LET item == items[IndexOfId(items, itemId)]
           blockItems == InBlock(items, item.timeBlock)
           blockIndex == IndexOfId(blockItems, itemId)
           swapIndex == IF direction = "up" THEN blockIndex - 1 ELSE blockIndex + 1
       IN /\ ~(direction = "up" /\ blockIndex = 1)
          /\ ~(direction = "down" /\ blockIndex = Len(blockItems))
          /\ LET swapItem == blockItems[swapIndex]
                 newItems == [i \in 1..Len(items) |->
                                IF items[i].id = item.id
                                THEN [items[i] EXCEPT !.suggestedTime = swapItem.suggestedTime]
                                ELSE IF items[i].id = swapItem.id
                                THEN [items[i] EXCEPT !.suggestedTime = item.suggestedTime]
                                ELSE items[i]]
             IN handleReorder(sortNewItems(newItems))

\* handleRefreshBonusActivity(itemId): the handler returns before anything
\* is written when getReplacementActivity returns null
handleRefreshBonusActivity ==
  /\ Mutable
  /\ \E itemId \in ItemIds(items), rnd \in RefreshDraws :
       LET index == IndexOfId(items, itemId)
           item == items[index]
           replacement == getReplacementActivity(survey, weather, babyAgeMonths,
                                                 currentBonusIds(items),
                                                 scheduledMinsOf(item), rnd)
       IN /\ item.type = "bonus"
          /\ call' = [NoCall EXCEPT !.op = "getReplacementActivity",
                                    !.excludeActivityIds = currentBonusIds(items),
                                    !.scheduledMinutes = scheduledMinsOf(item)]
          /\ result' = IF replacement = 0 THEN <<>> ELSE <<replacement>>
          /\ items' = IF replacement = 0 THEN items
                      ELSE [items EXCEPT
                              ![index].task = Task("bonus", replacement,
                                                   Catalog[replacement].duration, ""),
                              ![index].activity = replacement]
  /\ mutations' = mutations + 1
  /\ UNCHANGED <<inputVars, pc, idx, scheduledTimes, bonusActivities, placed, scores,
                 view, fetch, checklist, stored, invoked>>

NextChecklist ==
  \/ handleSurveyComplete
  \/ AddFeed
  \/ AddAppointments
  \/ AddNap
  \/ AddRecurring
  \/ SelectBonus
  \/ AddBonus
  \/ SortItems
  \/ SurveyCompleted
  \/ handleToggle
  \/ handleSaveEdit
  \/ handleDeleteItem
  \/ handleDrop
  \/ moveItem
  \/ handleRefreshBonusActivity

SpecChecklist == InitChecklist /\ [][NextChecklist]_vars


\* ================================================================== claims
\* Definitions used by the statements only.

\* start < other.end && end > other.start
IntervalsOverlap(s1, e1, s2, e2) == s1 < e2 /\ e1 > s2

\* free in the sense of the allocator: ends by 5:30 PM and meets none of sched
IsFree(sched, start, end) ==
  /\ end <= 1110
  /\ \A k \in 1..Len(sched) : ~IntervalsOverlap(start, end, sched[k].start, sched[k].end)

\* the starts findNextSlot looks at for a request
ExaminedStarts(preferredMins, duration) ==
  LET forward == { m \in { preferredMins + 15 * k : k \in 1..100 } : m <= 1110 - duration }
      backward == { m \in { preferredMins - 15 * k : k \in 1..100 } : m >= 420 }
      late == IF preferredMins + duration > 1110
              THEN { m \in { 1110 - duration - 15 * k : k \in 0..100 } : m >= 420 }
              ELSE {}
  IN ({preferredMins} \cup forward) \cup (backward \cup late)

\* the intervals a placement saw
SeenBy(p) == SubSeq(scheduledTimes, 1, p.seen)

SomeStartFree(p) ==
  \E s \in ExaminedStarts(p.preferred, p.duration) : IsFree(SeenBy(p), s, s + p.duration)

\* placed by the no-free-slot fallback
FallbackPlaced(p) == p.via = "findNextSlot" /\ ~SomeStartFree(p)

PlacementOf(item) ==
  IF \E k \in 1..Len(placed) : placed[k].id = item.id
  THEN placed[CHOOSE k \in 1..Len(placed) : placed[k].id = item.id]
  ELSE [id |-> item.id, via |-> "none", preferred |-> 0, duration |-> 0, mins |-> 0, seen |-> 0]

ItemStart(item) ==
  IF item.suggestedTime = AbsentTime THEN 0 ELSE parseTimeToMinutes(item.suggestedTime)

ItemDuration(item) ==
  CASE item.type = "feeding"   -> 30
    [] item.type = "nap"       -> IF prefs.napDuration # 0 THEN prefs.napDuration ELSE 30
    [] item.type = "recurring" -> recurringTimeSlots(item.task.text).duration
    [] OTHER                   -> Catalog[item.activity].duration

ItemsOverlap(a, b) ==
  IntervalsOverlap(ItemStart(a), ItemStart(a) + ItemDuration(a),
                   ItemStart(b), ItemStart(b) + ItemDuration(b))

IsBath(item) == item.type = "recurring" /\ item.task.text = "Having a bath"
\* a recurring item emitted at the time of the appointment that fulfils it
IsAnchored(item) == item.type = "recurring" /\ PlacementOf(item).via = "none"
IsFallbackItem(item) == FallbackPlaced(PlacementOf(item))
Exclusive(item) == item.canOverlap # "true"

ExemptAsStated(item) == ~Exclusive(item) \/ IsBath(item) \/ IsFallbackItem(item)

\* C1 as stated: after the run no two items that cannot overlap do overlap,
\* except pairs with the bath or with an item placed by the fallback.
C1_NoOverlapAsStated ==
  pc = "done" =>
    \A i, j \in 1..Len(items) :
      (i # j /\ ItemsOverlap(items[i], items[j]))
      => (ExemptAsStated(items[i]) \/ ExemptAsStated(items[j]))

\* C1 amended: after the run no two items that cannot overlap do overlap,
\* except pairs with the bath, with an item placed by the fallback, or with
\* a recurring item anchored to the appointment that fulfils it, and except
\* pairs of two feeds.
C1_NoOverlap ==
  pc = "done" =>
    \A i, j \in 1..Len(items) :
      (i # j /\ ItemsOverlap(items[i], items[j]))
      => \/ ExemptAsStated(items[i]) \/ ExemptAsStated(items[j])
         \/ IsAnchored(items[i]) \/ IsAnchored(items[j])
         \/ (items[i].type = "feeding" /\ items[j].type = "feeding")

\* the run is complete and a nap was moved off its preferred time to a free
\* start because a feed or an appointment was in the way
C1_Witness ==
  /\ pc = "done"
  /\ \E k \in 1..Len(placed) :
       /\ placed[k].id[1] = "nap"
       /\ placed[k].mins # placed[k].preferred
       /\ SomeStartFree(placed[k])

\* the items the allocation engine placed: naps, bonus activities and the
\* recurring tasks that went through findNextSlot
EnginePlaced(item) == PlacementOf(item).via = "findNextSlot"

C3_FindNextSlot ==
  \A k \in 1..Len(placed) :
    placed[k].via = "findNextSlot" =>
      IF SomeStartFree(placed[k])
      THEN IsFree(SeenBy(placed[k]), placed[k].mins, placed[k].mins + placed[k].duration)
      ELSE placed[k].mins = placed[k].preferred

\* one request was moved to another, free start and one request found no
\* free start and kept its preferred time
C3_Witness ==
  /\ \E k \in 1..Len(placed) :
       /\ placed[k].via = "findNextSlot"
       /\ SomeStartFree(placed[k])
       /\ placed[k].mins # placed[k].preferred
  /\ \E k \in 1..Len(placed) :
       /\ placed[k].via = "findNextSlot"
       /\ ~SomeStartFree(placed[k])
       /\ placed[k].mins = placed[k].preferred

IsBathPlacement(p) ==
  p.id[1] = "recurring" /\ prefs.recurringTasks[p.id[2] + 1] = "Having a bath"

ItemWithId(id) == items[CHOOSE i \in 1..Len(items) : items[i].id = id]

\* the recurring tasks the run has already handled
HandledTasks ==
  IF pc \in {"feeds", "appointments", "naps"} THEN {}
  ELSE IF pc = "recurring" THEN 0..(idx - 1)
  ELSE 0..(Len(prefs.recurringTasks) - 1)

\* C4: a configured bath that no appointment fulfils is placed at 6:00 PM
\* whatever occupies that time, its interval [1080, 1110) is recorded, and
\* no recurring task or bonus activity placed later at a free slot overlaps
\* it.
C4_Bath ==
  /\ \A t \in HandledTasks :
       (prefs.recurringTasks[t + 1] = "Having a bath"
        /\ ~IsFulfilled(Appointments, "Having a bath"))
       => /\ \E i \in 1..Len(items) : items[i].id = <<"recurring", t>>
          /\ ItemWithId(<<"recurring", t>>).suggestedTime = Clock(6, 0, TRUE)
          /\ \E k \in 1..Len(placed) : placed[k].id = <<"recurring", t>>
  /\ \A k \in 1..Len(placed) :
       IsBathPlacement(placed[k]) =>
         /\ placed[k].mins = 1080
         /\ scheduledTimes[placed[k].seen + 1] = [start |-> 1080, end |-> 1110]
         /\ \A j \in (k + 1)..Len(placed) :
              (~IsBathPlacement(placed[j]) /\ ~FallbackPlaced(placed[j]))
              => ~IntervalsOverlap(placed[j].mins, placed[j].mins + placed[j].duration,
                                   1080, 1110)

\* the bath went to 6:00 PM although that time was taken, and a later
\* request whose preferred time runs into the bath was moved to a free start
C4_Witness ==
  \E k \in 1..Len(placed) :
    /\ IsBathPlacement(placed[k])
    /\ \E n \in 1..placed[k].seen :
         IntervalsOverlap(1080, 1110, scheduledTimes[n].start, scheduledTimes[n].end)
    /\ \E j \in (k + 1)..Len(placed) :
         /\ IntervalsOverlap(placed[j].preferred, placed[j].preferred + placed[j].duration,
                             1080, 1110)
         /\ ~FallbackPlaced(placed[j])
         /\ placed[j].mins # placed[j].preferred

\* the feeds the run has already handled
HandledFeeds ==
  IF pc = "feeds" THEN 0..(idx - 1) ELSE 0..(Len(prefs.feedingTimes) - 1)

\* C5: every configured feeding time t at index i has the item feeding-i
\* with suggestedTime toTimeString(toMinutes(t)), and [t, t + 30) is
\* occupied, whatever the appointments and the 5:30 PM boundary.
C5_Feeds ==
  \A i \in HandledFeeds :
    LET t == parseTimeToMinutes(prefs.feedingTimes[i + 1])
    IN /\ \E n \in 1..Len(items) :
            /\ items[n].id = <<"feeding", i>>
            /\ items[n].suggestedTime = minutesToTimeString(t)
       /\ \E n \in 1..Len(scheduledTimes) : scheduledTimes[n] = [start |-> t, end |-> t + 30]

\* the run is complete with a feed that ends after 5:30 PM and a feed that
\* a timed appointment overlaps
C5_Witness ==
  /\ pc = "done"
  /\ \E i \in HandledFeeds : parseTimeToMinutes(prefs.feedingTimes[i + 1]) + 30 > 1110
  /\ \E i \in HandledFeeds : \E a \in 1..Len(Appointments) :
       /\ Appointments[a].startMins # Undefined
       /\ IntervalsOverlap(parseTimeToMinutes(prefs.feedingTimes[i + 1]),
                           parseTimeToMinutes(prefs.feedingTimes[i + 1]) + 30,
                           Appointments[a].startMins, Appointments[a].endMins)

\* C6: the returned list is in non-decreasing order of suggestedTime in
\* minutes since midnight, an item without suggestedTime counting as 0.
C6_Sorted ==
  pc = "done" =>
    \A n \in 1..(Len(items) - 1) : ItemStart(items[n]) <= ItemStart(items[n + 1])

\* the returned list has a bonus activity ahead of a feed, though all the
\* feeds were added before any bonus activity
C6_Witness ==
  /\ pc = "done"
  /\ \E n \in 1..(Len(items) - 1) :
       items[n].type = "bonus" /\ items[n + 1].type = "feeding"


\* ----------------------------------------------- scoring and selection
Returned(op) == pc = "returned" /\ call.op = op

AgeDisqualified(a) == babyAgeMonths < a.ageRange.min \/ babyAgeMonths > a.ageRange.max
RainDisqualified(a) == ~a.indoor /\ weather.present /\ weather.isRainy
HomeDisqualified(a) == ~a.indoor /\ survey.stayingHome

\* C7: scoreActivity is exactly 0 for an activity outside the age range
\* (bounds inclusive), for an outdoor activity in rain and for an outdoor
\* activity on a staying-home day, whatever the random draw.
C7_Disqualified ==
  \A k \in 1..Len(scores) :
    LET a == Catalog[scores[k].activity]
    IN (AgeDisqualified(a) \/ RainDisqualified(a) \/ HomeDisqualified(a))
       => scores[k].score = 0

\* one call scored an activity above its age range, one below its age
\* range or outdoors in rain, and one outdoors on a staying-home day
C7_Witness ==
  /\ pc = "returned"
  /\ \E k \in 1..Len(scores) :
       babyAgeMonths > Catalog[scores[k].activity].ageRange.max /\ scores[k].score = 0
  /\ \E k \in 1..Len(scores) :
       RainDisqualified(Catalog[scores[k].activity]) /\ scores[k].score = 0
  /\ \E k \in 1..Len(scores) :
       HomeDisqualified(Catalog[scores[k].activity]) /\ scores[k].score = 0

\* the candidates of the call with a positive score
PositiveCandidates == { scores[k].activity : k \in { n \in 1..Len(scores) : scores[n].score > 0 } }

\* the candidates that the food/venue cutoff removes at none of the slot
\* times of the call (all of them when no slot times are given)
PassesCutoffAtEverySlot(act) ==
  \/ Len(call.scheduledTimes) = 0
  \/ \A i \in 0..(call.count - 1) : ~EndsAfterCutoff(act, SlotTimeAt(call.scheduledTimes, i))
AlwaysEligible == { act \in PositiveCandidates : PassesCutoffAtEverySlot(act) }

Categories(acts) == { Catalog[act].category : act \in acts }
ResultSet == { result[k] : k \in 1..Len(result) }

\* C8 as stated: with count = 3 and at least 3 categories among the
\* positive-score candidates, 3 activities of at least 2 categories return.
C8_DiversityAsStated ==
  (Returned("selectBonusActivities") /\ call.count = 3
   /\ Cardinality(Categories(PositiveCandidates)) >= 3)
  => (Len(result) = 3 /\ Cardinality(Categories(ResultSet)) >= 2)

\* C8 amended: with count = 3 and at least 3 categories among the
\* positive-score candidates that the food/venue cutoff removes at none of
\* the slot times, 3 activities of at least 2 categories return.
C8_Diversity ==
  (Returned("selectBonusActivities") /\ call.count = 3
   /\ Cardinality(Categories(AlwaysEligible)) >= 3)
  => (Len(result) = 3 /\ Cardinality(Categories(ResultSet)) >= 2)

\* a call with slot times and count 3 in which the three best-scoring
\* candidates share one category and the result still spans two
C8_Witness ==
  /\ Returned("selectBonusActivities") /\ call.count = 3
  /\ Len(call.scheduledTimes) > 0
  /\ Cardinality(Categories(AlwaysEligible)) >= 3
  /\ \E c \in Categories(PositiveCandidates) :
       Cardinality({ k \in 1..Len(scores) :
                       /\ Catalog[scores[k].activity].category # c
                       /\ \E n \in 1..Len(scores) :
                            /\ Catalog[scores[n].activity].category = c
                            /\ scores[n].score < scores[k].score }) = 0
       /\ Cardinality({ act \in PositiveCandidates : Catalog[act].category = c }) >= 3
  /\ Len(result) = 3 /\ Cardinality(Categories(ResultSet)) >= 2

Distinct(seq) == \A i, j \in 1..Len(seq) : i # j => seq[i] # seq[j]

\* C9 as stated: the result has no repetition, and has fewer than count
\* activities only if fewer than count candidates have a positive score.
C9_CountAsStated ==
  Returned("selectBonusActivities") =>
    /\ Distinct(result)
    /\ Len(result) < call.count => Cardinality(PositiveCandidates) < call.count

\* C9 amended: the result has no repetition, and has fewer than count
\* activities only if fewer than count positive-score candidates pass the
\* food/venue cutoff at every slot time (all pass when none is given).
C9_Count ==
  Returned("selectBonusActivities") =>
    /\ Distinct(result)
    /\ Len(result) <= call.count
    /\ Len(result) < call.count => Cardinality(AlwaysEligible) < call.count

\* a call with slot times returned fewer than count activities, and a call
\* returned count activities
C9_Witness ==
  /\ Returned("selectBonusActivities")
  /\ Len(call.scheduledTimes) > 0
  /\ call.count > 0
  /\ Len(result) < call.count
  /\ Cardinality(AlwaysEligible) < call.count
  /\ Cardinality(PositiveCandidates) >= call.count

MatchesWalkStrollBath(a) ==
  \E w \in a.title \cup a.tags : \E i \in 1..Len(w.parts) :
    w.parts[i] \in {"walk", "stroll", "bath"}

\* C10: no activity returned by selectBonusActivities or by
\* getReplacementActivity has a title or tag matching walk, stroll or bath,
\* in any case of the letters.
C10_NoWalkStrollBath ==
  pc = "returned" => \A k \in 1..Len(result) : ~MatchesWalkStrollBath(Catalog[result[k]])

\* a call returned an activity while the catalog holds an activity that
\* matches walk or bath and that is in the age range, indoors or on a day
\* out
C10_Witness ==
  /\ pc = "returned"
  /\ Len(result) > 0
  /\ \E i \in ActivityIds :
       /\ MatchesWalkStrollBath(Catalog[i])
       /\ ~AgeDisqualified(Catalog[i]) /\ ~RainDisqualified(Catalog[i])
       /\ ~HomeDisqualified(Catalog[i])

\* ------------------------------------------- food/venue cutoff and replacement
\* cafe, coffee, brunch or lunch in the title, a tag or the id, in any case
IsFoodVenue(a) ==
  \E w \in (a.title \cup a.tags) \cup {a.id} : \E i \in 1..Len(w.parts) :
    w.parts[i] \in {"cafe", "coffee", "brunch", "lunch"}

\* the slot time of result index k (from 1): the k-th time, the last one
\* when the list is shorter
SlotTimeOfResult(k) ==
  IF k <= Len(call.scheduledTimes) THEN call.scheduledTimes[k]
  ELSE call.scheduledTimes[Len(call.scheduledTimes)]

\* C11 as stated: when slot times are supplied, every returned food/venue
\* activity ends by minute 900 at the slot time of its index in the result.
C11_CutoffAsStated ==
  (Returned("selectBonusActivities") /\ Len(call.scheduledTimes) > 0) =>
    \A k \in 1..Len(result) :
      IsFoodVenue(Catalog[result[k]])
      => SlotTimeOfResult(k) + Catalog[result[k]].duration <= 900

\* C12 as stated: in the list generateChecklist returns, no bonus item whose
\* activity is a food/venue activity ends after 3:00 PM.
C12_FoodBonusAsStated ==
  pc = "done" =>
    \A i \in 1..Len(items) :
      (items[i].type = "bonus" /\ IsFoodVenue(Catalog[items[i].activity]))
      => ItemStart(items[i]) + Catalog[items[i].activity].duration <= 900

\* what getReplacementActivity may not return whatever its score: a
\* walk/stroll/bath match, an excluded id, a food/venue activity that would
\* end after 3:00 PM at the given slot time
Admissible(i) ==
  /\ ~MatchesWalkStrollBath(Catalog[i])
  /\ Catalog[i].id \notin call.excludeActivityIds
  /\ ~(/\ IsFoodVenue(Catalog[i])
       /\ call.scheduledMinutes # -1
       /\ call.scheduledMinutes + Catalog[i].duration > 900)

Scored(i) == \E k \in 1..Len(scores) : scores[k].activity = i
ScoreOf(i) == scores[CHOOSE k \in 1..Len(scores) : scores[k].activity = i].score
Eligible == { i \in ActivityIds : Admissible(i) /\ Scored(i) /\ ScoreOf(i) > 0 }

\* C13: getReplacementActivity returns null exactly when no catalog
\* activity is eligible, and otherwise an eligible activity whose score is
\* maximal among the eligible ones; the activities it scores are exactly
\* the admissible ones.
C13_Replacement ==
  Returned("getReplacementActivity") =>
    /\ \A i \in ActivityIds : Admissible(i) <=> Scored(i)
    /\ (result = <<>>) <=> (Eligible = {})
    /\ result # <<>> =>
         /\ result[1] \in Eligible
         /\ \A j \in Eligible : ScoreOf(j) <= ScoreOf(result[1])

\* a call with excluded ids and a slot time that cuts off a food/venue
\* activity returned the best of several eligible activities, which is not
\* the first of them in catalog order
C13_Witness ==
  /\ Returned("getReplacementActivity")
  /\ call.excludeActivityIds # {}
  /\ \E i \in ActivityIds :
       /\ IsFoodVenue(Catalog[i]) /\ Catalog[i].id \notin call.excludeActivityIds
       /\ ~Admissible(i)
       /\ babyAgeMonths >= Catalog[i].ageRange.min /\ babyAgeMonths <= Catalog[i].ageRange.max
  /\ result # <<>>
  /\ \E j \in Eligible : j < result[1] /\ ScoreOf(j) < ScoreOf(result[1])

\* ------------------------------------------------- parser and time utilities
\* the clauses of the text of the call: the segments that are not blank
ClausesOfCall == SelectSeq(call.text, LAMBDA c : c # Blank)

\* the minute a time written with AM or PM denotes
ClockMinutes(t) == ((t.h % 12) + (IF t.pm THEN 12 ELSE 0)) * 60 + t.m
Marked(t) == t.fmt \in {"hmm_ampm", "h_ampm"}

TypeByPrecedence(c) ==
  CASE c.walk -> "outing"
    [] ~c.walk /\ c.visit -> "visitor"
    [] ~c.walk /\ ~c.visit /\ c.medical -> "appointment"
    [] ~c.walk /\ ~c.visit /\ ~c.medical /\ c.venue -> "outing"
    [] OTHER -> "other"

\* C15: every clause gets exactly one type by first-match precedence
\* (walking, visitor, medical, errand/venue, other), and fulfillsTask is
\* set, to "Going for a walk", if and only if the walking rule matched.
C15_TypePrecedence ==
  Returned("parseAppointments") =>
    /\ Len(result) = Len(ClausesOfCall)
    /\ \A k \in 1..Len(ClausesOfCall) :
         /\ result[k].type = TypeByPrecedence(ClausesOfCall[k])
         /\ result[k].fulfillsTask =
              (IF ClausesOfCall[k].walk THEN "Going for a walk" ELSE "")

\* "walk with a friend at 3pm" was parsed: walking and visitor keywords,
\* typed outing
C15_Witness ==
  /\ Returned("parseAppointments")
  /\ \E k \in 1..Len(ClausesOfCall) :
       /\ ClausesOfCall[k] = WalkAtThree
       /\ result[k].type = "outing"
       /\ result[k].fulfillsTask = "Going for a walk"

\* C17: for every canonical string s, minutesToTimeString(
\* parseTimeToMinutes(s)) = s, and for every minute m of the day,
\* parseTimeToMinutes(minutesToTimeString(m)) = m.
C17_RoundTrip ==
  /\ Returned("formatParsed") => result = <<call.time>>
  /\ Returned("parseFormatted") => result = <<call.minutes>>

\* the round trip of 12:30 PM was computed
C17_Witness ==
  Returned("formatParsed") /\ call.time = Clock(12, 30, TRUE) /\ result = <<call.time>>

\* ------------------------------------------------ appointments in a run
\* the clauses of the survey text
ClausesOfSurvey == SelectSeq(survey.appointments, LAMBDA c : c # Blank)
HasInterval(apt) == apt.startMins # -1 /\ apt.endMins # -1
TimedAppointments == SelectSeq(Appointments, HasInterval)
Registered == pc \notin {"feeds", "appointments"}

C18_ProperIntervalsAsStated ==
  \A k \in 1..Len(scheduledTimes) : scheduledTimes[k].end > scheduledTimes[k].start

\* --------------------------------------------------------------- termination
\* the starts a loop of findNextSlot can visit from a first start to a last
LoopLength(first, last) == IF first > last THEN 0 ELSE (last - first) \div 15 + 1

\* the most starts findNextSlot can test for a request
StepLimit(preferredMins, duration) ==
  (IF preferredMins + duration > 1110 THEN LoopLength(420, 1110 - duration) ELSE 0)
  + 1
  + LoopLength(preferredMins + 15, 1110 - duration)
  + LoopLength(420, preferredMins - 15)

\* the loop iterations and single steps a run still has to make: the feeds
\* left, the appointment registration, the naps left, the recurring tasks
\* left, the selection, the bonus activities left (at most 3 before the
\* selection) and the sort
Remaining ==
  LET nFeeds == Len(prefs.feedingTimes)
      nNaps == IF prefs.napsPerDay > 0 THEN prefs.napsPerDay ELSE 0
      nTasks == Len(prefs.recurringTasks)
  IN CASE pc = "feeds"        -> (nFeeds - idx) + 1 + nNaps + nTasks + 1 + 3 + 1
       [] pc = "appointments" -> 1 + nNaps + nTasks + 1 + 3 + 1
       [] pc = "naps"         -> (nNaps - idx) + nTasks + 1 + 3 + 1
       [] pc = "recurring"    -> (nTasks - idx) + 1 + 3 + 1
       [] pc = "select"       -> 1 + 3 + 1
       [] pc = "bonus"        -> (Len(bonusActivities) - idx) + 1
       [] pc = "sort"         -> 1
       [] pc = "done"         -> 0
       [] OTHER               -> -1

\* the run is at a step it can make: inside a list it iterates, or at one
\* of the single steps
AtAStep ==
  \/ pc = "feeds" /\ idx < Len(prefs.feedingTimes)
  \/ pc = "naps" /\ idx < prefs.napsPerDay
  \/ pc = "recurring" /\ idx < Len(prefs.recurringTasks)
  \/ pc = "bonus" /\ idx < Len(bonusActivities)
  \/ pc \in {"appointments", "select", "sort"} /\ idx = 0

\* C19: generateChecklist always terminates: every step of a run uses up
\* one of a finite number of remaining iterations, a run that has not
\* reached the end of the final sort is at a step it can make, the count is
\* 0 exactly at the end, and each findNextSlot call tests a bounded number
\* of 15-minute steps.
C19_Terminates ==
  /\ [][Remaining' < Remaining]_vars
  /\ [](Remaining >= 0 /\ (Remaining = 0 <=> pc = "done"))
  /\ [](pc # "done" => AtAStep)
  /\ [](\A k \in 1..Len(placed) :
          placed[k].steps <= StepLimit(placed[k].preferred, placed[k].duration))

\* a run ended in which a findNextSlot call went through its three loops
\* and found nothing
C19_Witness ==
  /\ pc = "done"
  /\ \E k \in 1..Len(placed) :
       /\ placed[k].via = "findNextSlot"
       /\ placed[k].steps > 40
       /\ placed[k].steps = StepLimit(placed[k].preferred, placed[k].duration)

\* the fetch started at mount has been fulfilled or has been rejected
Settled(f) == f \in {"resolved", "rejected"}

StageRank(id) == CASE id[1] = "nap" -> 1 [] id[1] = "recurring" -> 2 [] OTHER -> 3

\* the interval a placement registered
IntervalOf(p) == [start |-> p.mins, end |-> p.mins + p.duration]

\* C21: during a run intervals are registered in the order feeds, timed
\* appointments, naps, recurring tasks, bonus activities, each in the step
\* of its placement, and a registered interval is never removed or changed;
\* so every findNextSlot call sees the intervals of all the feeds, of all
\* the timed appointments and of all the earlier placements.
C21_RegistrationOrder ==
  /\ [][/\ Len(scheduledTimes') >= Len(scheduledTimes)
        /\ SubSeq(scheduledTimes', 1, Len(scheduledTimes)) = scheduledTimes]_vars
  /\ [](\A n \in 1..Len(scheduledTimes) :
          n <= Len(prefs.feedingTimes) =>
            scheduledTimes[n].start = parseTimeToMinutes(prefs.feedingTimes[n]))
  /\ [](\A k \in 1..Len(placed) :
          /\ placed[k].seen >= Len(prefs.feedingTimes) + Len(TimedAppointments)
          /\ placed[k].seen < Len(scheduledTimes)
          /\ scheduledTimes[placed[k].seen + 1] = IntervalOf(placed[k])
          /\ \A n \in 1..Len(TimedAppointments) :
               scheduledTimes[Len(prefs.feedingTimes) + n].start
                 = TimedAppointments[n].startMins
          /\ \A j \in 1..(k - 1) :
               /\ StageRank(placed[j].id) <= StageRank(placed[k].id)
               /\ placed[j].seen < placed[k].seen)

\* a run ended with feeds, a timed appointment and placements of all three
\* kinds, in which a request was moved off a start that an earlier placement
\* of its own stage had taken
C21_Witness ==
  /\ pc = "done"
  /\ Len(prefs.feedingTimes) > 0 /\ Len(TimedAppointments) > 0
  /\ \A r \in 1..3 : \E k \in 1..Len(placed) : StageRank(placed[k].id) = r
  /\ \E k \in 1..Len(placed) : \E j \in 1..(k - 1) :
       /\ placed[j].id[1] = placed[k].id[1]
       /\ placed[k].via = "findNextSlot"
       /\ placed[k].mins # placed[k].preferred
       /\ IntervalsOverlap(placed[k].preferred, placed[k].preferred + placed[k].duration,
                           placed[j].mins, placed[j].mins + placed[j].duration)

\* ------------------------------------------------ search order of findNextSlot
\* the free starts of a request among the starts of each search
FreeAmong(p, starts) == { m \in starts : IsFree(SeenBy(p), m, m + p.duration) }
LateStarts(p) ==
  IF p.preferred + p.duration > 1110
  THEN { m \in { 1110 - p.duration - 15 * k : k \in 0..100 } : m >= 420 }
  ELSE {}
ForwardStarts(p) ==
  { m \in { p.preferred + 15 * k : k \in 1..100 } : m <= 1110 - p.duration }
BackwardStarts(p) == { m \in { p.preferred - 15 * k : k \in 1..100 } : m >= 420 }
Greatest(S) == CHOOSE m \in S : \A n \in S : n <= m
Least(S) == CHOOSE m \in S : \A n \in S : m <= n

\* C22: findNextSlot searches in a fixed order: a request that would end
\* after 1110 gets the latest free start among 1110 - duration - 15k >= 420;
\* when that search does not apply or finds nothing, the preferred start if
\* free; otherwise the smallest free start among preferred + 15k <= 1110 -
\* duration, even when a free earlier start is closer; otherwise the
\* largest free start among preferred - 15k >= 420.
C22_SearchOrder ==
  \A k \in 1..Len(placed) :
    LET p == placed[k]
    IN p.via = "findNextSlot" =>
         IF FreeAmong(p, LateStarts(p)) # {}
         THEN p.mins = Greatest(FreeAmong(p, LateStarts(p)))
         ELSE IF IsFree(SeenBy(p), p.preferred, p.preferred + p.duration)
         THEN p.mins = p.preferred
         ELSE IF FreeAmong(p, ForwardStarts(p)) # {}
         THEN p.mins = Least(FreeAmong(p, ForwardStarts(p)))
         ELSE FreeAmong(p, BackwardStarts(p)) # {}
              => p.mins = Greatest(FreeAmong(p, BackwardStarts(p)))

\* a run made a request that went forward past a closer free earlier start,
\* and a request that found no free start forward and took the latest free
\* start before its preferred time
C22_Witness ==
  /\ \E k \in 1..Len(placed) :
       /\ placed[k].via = "findNextSlot"
       /\ placed[k].mins >= placed[k].preferred + 30
       /\ IsFree(SeenBy(placed[k]), placed[k].preferred - 15,
                 placed[k].preferred - 15 + placed[k].duration)
  /\ \E k \in 1..Len(placed) :
       /\ placed[k].via = "findNextSlot"
       /\ placed[k].preferred + placed[k].duration <= 1110
       /\ FreeAmong(placed[k], ForwardStarts(placed[k])) = {}
       /\ placed[k].mins < placed[k].preferred

\* ------------------------------------------------ fulfilled recurring tasks
\* the appointments that fulfil a task and have a start time
TimedFulfilling(task) ==
  { a \in 1..Len(Appointments) :
      Appointments[a].fulfillsTask = task /\ Appointments[a].startMins # -1 }

\* C23 as stated: every configured recurring task that some appointment
\* with a start time fulfils has its item anchored to a fulfilling
\* appointment: the item's suggestedTime is that appointment's start time,
\* its label names that appointment, and the task got no placement and no
\* interval of its own, wherever the timed fulfilling appointment stands in
\* the list.
C23_AnchoredAsStated ==
  pc = "done" =>
    \A t \in 0..(Len(prefs.recurringTasks) - 1) :
      TimedFulfilling(prefs.recurringTasks[t + 1]) # {} =>
        /\ \E a \in TimedFulfilling(prefs.recurringTasks[t + 1]) :
             /\ ItemWithId(<<"recurring", t>>).suggestedTime = Appointments[a].startTime
             /\ ItemWithId(<<"recurring", t>>).task.with = Appointments[a].description
        /\ \A k \in 1..Len(placed) : placed[k].id # <<"recurring", t>>

\* ------------------------------------------------ the visitor window
\* the visitor appointments that have a start and an end
TimedVisitors ==
  { a \in 1..Len(Appointments) :
      Appointments[a].type = "visitor" /\ HasInterval(Appointments[a]) }

\* the social-flagged tasks of the recurring task table, in its order
SocialTasks ==
  SelectSeq(<<"Read 5 books", "Eating solids", "Going for a walk", "Having a bath",
              "Vestibular play", "Crawling/walking practice", "Music time">>,
            LAMBDA task : recurringTimeSlots(task).social)

SocialIndex(task) == CHOOSE k \in 1..Len(SocialTasks) : SocialTasks[k] = task

\* C24 as stated: when a visitor appointment with start and end exists,
\* every social-flagged recurring task that no appointment fulfils is asked
\* for at visitorStart + floor(visitDuration * (k + 1) / (n + 1)), k its
\* index from 0 among the n social tasks, and its suggested start lies in
\* [visitorStart, visitorEnd).
C24_DuringVisitAsStated ==
  pc = "done" =>
    \A t \in 0..(Len(prefs.recurringTasks) - 1) :
      LET task == prefs.recurringTasks[t + 1]
      IN (/\ TimedVisitors # {}
          /\ \E k \in 1..Len(SocialTasks) : SocialTasks[k] = task
          /\ \A a \in 1..Len(Appointments) : Appointments[a].fulfillsTask # task)
         => \E v \in TimedVisitors : \E k \in 1..Len(placed) :
              /\ placed[k].id = <<"recurring", t>>
              /\ placed[k].preferred =
                   Appointments[v].startMins
                   + ((Appointments[v].endMins - Appointments[v].startMins) * SocialIndex(task))
                     \div (Len(SocialTasks) + 1)
              /\ ItemStart(ItemWithId(<<"recurring", t>>)) >= Appointments[v].startMins
              /\ ItemStart(ItemWithId(<<"recurring", t>>)) < Appointments[v].endMins

\* ------------------------------------------------ the score
\* the sum of the adjustments of an activity in the context of the call,
\* the appointment adjustment applying when the day has an appointment
AdjustmentsAsStated(a) ==
  (IF weather.present /\ ~a.indoor /\ ~survey.stayingHome /\ weather.isGoodWeather
   THEN 20 ELSE 0)
  + (IF weather.present /\ a.weatherDependent = "good" /\ ~weather.isGoodWeather
     THEN -30 ELSE 0)
  + (IF ~a.indoor /\ ~survey.stayingHome THEN 15 ELSE 0)
  + (IF survey.energyLevel = "low" /\ a.energyRequired = "high" THEN -40 ELSE 0)
  + (IF survey.energyLevel = "low" /\ a.energyRequired = "low" THEN 20 ELSE 0)
  + (IF survey.energyLevel = "high" /\ a.energyRequired = "high" THEN 15 ELSE 0)
  + (IF survey.wantsCrafts /\ a.category = "creative" THEN 30 ELSE 0)
  + (IF survey.wantsCrafts /\ (\E w \in a.tags : w.parts = <<"messy">> /\ ~w.upper)
     THEN 10 ELSE 0)
  + (IF Len(survey.parsedAppointments) > 0 /\ a.duration <= 15 THEN 15 ELSE 0)
  + (IF Len(survey.parsedAppointments) > 0 /\ a.duration >= 30 THEN -10 ELSE 0)

\* C25 as stated: for every activity that is not hard-disqualified the
\* score is max(0, 50 + A + r) with r in [0, 20), A the sum of the
\* adjustments, the +15 / -10 for short / long activities applying exactly
\* when the day has at least one appointment.
C25_ScoreAsStated ==
  Returned("selectBonusActivities") =>
    \A k \in 1..Len(scores) :
      LET a == Catalog[scores[k].activity]
      IN ~(AgeDisqualified(a) \/ RainDisqualified(a) \/ HomeDisqualified(a))
         => \E r \in 0..19 :
              scores[k].score = Max(0, 50 + AdjustmentsAsStated(a) + r)

\* ------------------------------------------------ the two-pass selection
Min(a, b) == IF a <= b THEN a ELSE b

\* a call of selectBonusActivities without slot times: the selection is
\* pickDiverseActivities over the candidates with a positive score
PickedDiverse == Returned("selectBonusActivities") /\ Len(call.scheduledTimes) = 0

\* how many elements the first pass contributed
FirstPassLength == Min(call.count, Cardinality(Categories(PositiveCandidates)))

\* C26: pickDiverseActivities returns min(count, pool size) activities of
\* min(count, number of categories in the pool) distinct categories; the
\* first-pass elements are, in descending order of score, the best
\* candidate of each of the best categories; the others are, in descending
\* order of score, the best candidates not yet taken; and the first element
\* is a highest-scoring candidate.
C26_TwoPass ==
  PickedDiverse =>
    /\ Len(result) = Min(call.count, Cardinality(PositiveCandidates))
    /\ Cardinality(Categories(ResultSet)) = FirstPassLength
    /\ ResultSet \subseteq PositiveCandidates
    /\ \A i \in 1..Len(result) :
         /\ i <= FirstPassLength =>
              /\ \A j \in 1..(i - 1) :
                   /\ Catalog[result[j]].category # Catalog[result[i]].category
                   /\ ScoreOf(result[j]) >= ScoreOf(result[i])
              /\ \A c \in PositiveCandidates :
                   (\A j \in 1..(i - 1) : Catalog[result[j]].category # Catalog[c].category)
                   => ScoreOf(c) <= ScoreOf(result[i])
         /\ i > FirstPassLength =>
              /\ \A j \in (FirstPassLength + 1)..(i - 1) :
                   ScoreOf(result[j]) >= ScoreOf(result[i])
              /\ \A c \in PositiveCandidates \ ResultSet : ScoreOf(c) <= ScoreOf(result[i])
    /\ Len(result) > 0 => \A c \in PositiveCandidates : ScoreOf(c) <= ScoreOf(result[1])

\* a call for 3 activities from a pool of two categories: the first pass
\* passed over the second best candidate, which has the category of the
\* best, and the second pass took it
C26_Witness ==
  /\ PickedDiverse /\ call.count = 3 /\ Len(result) = 3
  /\ FirstPassLength = 2
  /\ Catalog[result[3]].category = Catalog[result[1]].category
  /\ ScoreOf(result[3]) > ScoreOf(result[2])


\* ------------------------------------------------ the checklist under use
\* C27: from a generated list on, after any sequence of toggles, saved
\* edits, deletions, drops onto another item, moves within a block and bonus
\* refreshes, the shown checklist's items are in non-decreasing order of
\* suggestedTime in minutes, a missing time counting as 0.
C27_StaysSorted ==
  (pc = "page" /\ ChecklistShown) =>
    \A n \in 1..(Len(items) - 1) : ItemStart(items[n]) <= ItemStart(items[n + 1])

\* two handlers have run, the nap now stands directly ahead of the feed that
\* the generated list had before it, and two items share one time
C27_Witness ==
  /\ pc = "page" /\ ChecklistShown
  /\ mutations = MaxMutations
  /\ \E n \in 1..(Len(items) - 1) : items[n].type = "nap" /\ items[n + 1].type = "feeding"
  /\ \E i, j \in 1..Len(items) :
       i # j /\ items[i].suggestedTime = items[j].suggestedTime

\* the item at position i ends by the end of the day and overlaps no other
\* item that cannot be overlapped
ValidAt(list, i) ==
  /\ ItemStart(list[i]) + ItemDuration(list[i]) <= END_BY_TIME
  /\ \A j \in 1..Len(list) :
       (j # i /\ Exclusive(list[j])) => ~ItemsOverlap(list[i], list[j])

\* a step that gives the item with this id another activity: only
\* handleRefreshBonusActivity does
Replaces(id) ==
  /\ id \in ItemIds(items) \cap ItemIds(items')
  /\ items'[IndexOfId(items', id)].activity # items[IndexOfId(items, id)].activity

\* C28 as stated: when handleRefreshBonusActivity replaces the activity of a
\* bonus item, the item's suggestedTime, timeBlock, id and completed flag and
\* all other items are unchanged, and the item, valid before, still ends by
\* 1110 with its new duration and overlaps no other item that cannot be
\* overlapped.
C28_RefreshValidAsStated ==
  [][\A id \in ItemIds(items) :
       Replaces(id) =>
         LET i == IndexOfId(items, id)
         IN /\ Len(items') = Len(items)
            /\ items'[i].id = id
            /\ items'[i].suggestedTime = items[i].suggestedTime
            /\ items'[i].timeBlock = items[i].timeBlock
            /\ items'[i].completed = items[i].completed
            /\ \A j \in 1..Len(items) : j # i => items'[j] = items[j]
            /\ ValidAt(items, i) => ValidAt(items', i)]_vars

\* the activity ids of the bonus items of a list, in list order
RECURSIVE BonusActivityIds(_)
BonusActivityIds(list) ==
  IF list = <<>> THEN <<>>
  ELSE (IF Head(list).type = "bonus" THEN <<Catalog[Head(list).activity].id>> ELSE <<>>)
       \o BonusActivityIds(Tail(list))

\* a step of handleRefreshBonusActivity in which getReplacementActivity
\* returns null
RefreshReturnsNull ==
  /\ mutations' = mutations + 1
  /\ call'.op = "getReplacementActivity"
  /\ result' = <<>>

\* C29: from a generated checklist on, the bonus items carry pairwise
\* distinct activity ids whatever handlers run; a refresh installs an
\* activity that no bonus item of the checklist, the refreshed one included,
\* carried before it; and a refresh for which getReplacementActivity returns
\* null leaves the checklist unchanged.
C29_DistinctBonus ==
  /\ []((pc = "page" /\ ChecklistShown) => Distinct(BonusActivityIds(items)))
  /\ [][\A id \in ItemIds(items) :
          Replaces(id) =>
            /\ items[IndexOfId(items, id)].type = "bonus"
            /\ Catalog[items'[IndexOfId(items', id)].activity].id
                 \notin currentBonusIds(items)]_vars
  /\ [][RefreshReturnsNull => items' = items]_vars

\* two bonus items have been refreshed: neither carries the activity that
\* generateChecklist selected for it
C29_Witness ==
  /\ pc = "page" /\ ChecklistShown
  /\ \E i, j \in 1..Len(items) :
       /\ i # j
       /\ items[i].type = "bonus" /\ items[j].type = "bonus"
       /\ items[i].activity # bonusActivities[items[i].id[2] + 1]
       /\ items[j].activity # bonusActivities[items[j].id[2] + 1]
  /\ call.op = "getReplacementActivity" /\ result # <<>>

\* C30: in the list generateChecklist returns and in the shown checklist
\* after any handlers have run, every item's timeBlock is the block of its
\* suggestedTime in minutes (morning below 720, midday below 840, afternoon
\* below 1020, evening from there on), a missing time counting as minute 0.
C30_BlockAgreesWithTime ==
  (pc = "done" \/ (pc = "page" /\ ChecklistShown)) =>
    \A i \in 1..Len(items) : items[i].timeBlock = getTimeBlock(ItemStart(items[i]))

\* an item was edited to an evening time and another item, not edited, was
\* dropped onto it: both are in the evening block, which the generated list
\* left empty
C30_Witness ==
  /\ pc = "page" /\ ChecklistShown
  /\ \E i, j \in 1..Len(items) :
       /\ items[i].isEdited /\ items[i].timeBlock = "evening"
       /\ ~items[j].isEdited /\ items[j].timeBlock = "evening"
       /\ items[j].suggestedTime = items[i].suggestedTime

====
